---- MODULE Spec2Model ----
(***************************************************************************)
(* starlight-tags: the tags store (initializeTagsStore / resetTagsStore),  *)
(* the per-locale data module (getTagsData / resetDataCache) and the       *)
(* TagsProcessor's relationship graphs, modelled as state machines.        *)
(*                                                                         *)
(* JavaScript runs one task at a time and an async function suspends only  *)
(* at an await.  Every action below is one run-to-completion segment: the  *)
(* synchronous prefix of a call up to its first await, or the continuation *)
(* that runs when the awaited promise settles.                             *)
(*                                                                         *)
(* The three store modules keep separate module-level state and never call *)
(* each other; `unit` says which of them the callers of a run import.      *)
(***************************************************************************)
EXTENDS Integers, Sequences, FiniteSets, TLC

\* ---- bounds of the model ----
MaxPasses == 3
MaxCallers == 3
MaxResets == 2
NumTags == 3      \* defined tags 1..NumTags; NumTags + 1 is an ID no definition has
MaxPrereqs == 2   \* longest prerequisites list of a definition

NULL == 0
FreshMap == -1

Units == {"store", "store011", "data"}
Locales == {"root", "fr"}
TagIds == {"a", "b"}
Passes == 1..MaxPasses
Callers == 1..MaxCallers
Tags == 1..NumTags
Ids == 1..(NumTags + 1)

\* the await an async pass is suspended at
Awaiting == {"config", "import", "fetch", "load", "validate"}
Running == Awaiting \cup {"cache"}

AccessorNames ==
  {"getTag", "getTags", "getAllTagsSorted", "getTagsForPage", "getTagsByDifficulty",
   "getTagsByContentType", "validatePrerequisites", "getLearningPath"}

NotInitializedMessage ==
  "[starlight-tags] Tags store not initialized. Call await initializeTagsStore(config) before accessing tags."

VARIABLES
  unit,                  \* the module under test
  cachedProcessor,       \* tags store: the processor (named by its pass) or NULL
  initializationPromise, \* tags store: the pending pass or NULL
  dataCache,             \* data module: locale -> data object (named by its pass) or NULL
  initPromises,          \* data module: locale -> pending pass or NULL
  processorCache,        \* data module: locale -> processor or NULL
  cachedConfig,          \* data module: the plugin config has been imported
  pass,                  \* every async pass started so far and where it is suspended
  processor,             \* the TagsProcessor each pass created
  caller,                \* the callers and what each awaits / has been given
  nextPass,              \* the next unused pass id
  resets,                \* history: how many resets were issued
  cleanEpoch,            \* history: no pass of the locale was running at the last reset
  fetches,               \* history: corpus fetches (getCollection) of the locale since the last reset
  failures,              \* history: failed passes of the locale since the last reset
  succeeded,             \* history: a pass of the locale completed successfully since the last reset
  published,             \* history: processors whose tag Map part_012 handed to a reader
  lastAccess             \* history: the read accessor call that has just returned, if any

VARIABLES
  prerequisites,         \* processedTags: tag -> its prerequisites list (tagDef.prerequisites || [])
  stack,                 \* the active calls of buildPrerequisiteChain, innermost last
  prerequisiteChain,     \* processedTags: tag -> its computed chain (a list holding 0 while unset)
  current,               \* calculateEducationalRelationships: the tag its loop is at
  warnings,              \* the circular-dependency warnings logged so far
  steps                  \* history: the loop iterations, calls and returns executed so far

chainVars == <<prerequisites, stack, prerequisiteChain, current, warnings, steps>>

VARIABLES
  configFile,            \* TagsProcessor: what loadTagsConfig finds at config.configPath
  tagsData,              \* TagsProcessor: the parsed definition table, once loaded
  docsEntries,           \* TagsProcessor: the page corpus handed to the constructor
  onInlineTagsNotFound,  \* TagsProcessor: config.onInlineTagsNotFound
  processedTags,         \* TagsProcessor: the processed tags in Map order, once built
  init,                  \* TagsProcessor: how far initialize() has come, and what it logged
  answer                 \* the query that has just returned, and its result

tagVars == <<configFile, tagsData, docsEntries, onInlineTagsNotFound, processedTags, init,
             answer>>

storeVars == <<unit, cachedProcessor, initializationPromise, dataCache, initPromises,
               processorCache, cachedConfig, pass, processor, caller, nextPass, resets,
               cleanEpoch, fetches, failures, succeeded, published, lastAccess>>

NoPass == [pc |-> "none", loc |-> "root", epoch |-> 0, proc |-> NULL, dataTags |-> NULL]
NoProcessor == [config |-> FALSE, processedTags |-> FALSE, map |-> {}]
IdleCaller == [st |-> "idle", on |-> NULL, epoch |-> 0, got |-> NULL, loc |-> "root"]
NoAccess == [fn |-> "none", threw |-> FALSE, message |-> "", initialized |-> FALSE]

StoreIdle ==
  /\ cachedProcessor = NULL
  /\ initializationPromise = NULL
  /\ dataCache = [l \in Locales |-> NULL]
  /\ initPromises = [l \in Locales |-> NULL]
  /\ processorCache = [l \in Locales |-> NULL]
  /\ cachedConfig = FALSE
  /\ pass = [p \in Passes |-> NoPass]
  /\ processor = [p \in Passes |-> NoProcessor]
  /\ caller = [c \in Callers |-> IdleCaller]
  /\ nextPass = 1
  /\ resets = 0
  /\ cleanEpoch = [l \in Locales |-> TRUE]
  /\ fetches = [l \in Locales |-> 0]
  /\ failures = [l \in Locales |-> 0]
  /\ succeeded = [l \in Locales |-> FALSE]
  /\ published = {}
  /\ lastAccess = NoAccess

Unset == <<0>>

ChainIdle ==
  /\ prerequisites = [t \in Tags |-> <<>>]
  /\ stack = <<>>
  /\ prerequisiteChain = [t \in Tags |-> Unset]
  /\ current = 1
  /\ warnings = 0
  /\ steps = 0

\* a TagsProcessor after its constructor: nothing loaded, nothing built, nothing logged
NewProcessor == [at |-> "new", built |-> FALSE, cycleWarnings |-> 0, inlineWarnings |-> 0,
                 error |-> "none"]

NoAnswer == [fn |-> "none"]

TagsIdle ==
  /\ configFile = "valid"
  /\ tagsData = [loaded |-> FALSE, tags |-> <<>>]
  /\ docsEntries = <<>>
  /\ onInlineTagsNotFound = "warn"
  /\ processedTags = <<>>
  /\ init = NewProcessor
  /\ answer = NoAnswer

\* ---- helpers ----

\* every caller awaiting pass p settles with the promise's outcome
Settle(p, st, got) ==
  [c \in Callers |->
     IF caller[c].st = "waiting" /\ caller[c].on = p
     THEN [caller[c] EXCEPT !.st = st, !.got = got]
     ELSE caller[c]]

\* TagsProcessor.cleanup(): processedTags?.clear(); processedTags = undefined
cleanup(procs, q) ==
  IF q = NULL THEN procs
  ELSE [procs EXCEPT ![q].processedTags = FALSE,
                     ![q].map = IF procs[q].processedTags THEN {} ELSE procs[q].map]

\* TagsProcessor.getTags(): this.processedTags || new Map()
getTagsOf(procs, q) == IF procs[q].processedTags THEN q ELSE FreshMap

\* the contents of the Map a reader was handed
MapContents(ref) == IF ref = FreshMap THEN {} ELSE processor[ref].map

\* callers are numbered in the order of their calls
Arrives(c) ==
  /\ caller[c].st = "idle"
  /\ \A d \in Callers : d < c => caller[d].st # "idle"

\* a fresh async pass, suspended at its first await
NewPass(at, l, q) == [pc |-> at, loc |-> l, epoch |-> resets, proc |-> q, dataTags |-> NULL]

Bump(f, l) == [f EXCEPT ![l] = @ + 1]

\* ==== the tags store, src/unnamed/part_012 lines 1-193 ====

\* a variant for the check of C1: the in-flight promise is not consulted, so every call
\* that finds no cached processor starts a pass of its own
initializeTagsStore_unshared(c) ==
  /\ unit = "store"
  /\ Arrives(c)
  /\ IF cachedProcessor # NULL
     THEN /\ caller' = [caller EXCEPT ![c] = [st |-> "resolved", on |-> NULL, epoch |-> resets,
                                              got |-> cachedProcessor, loc |-> "root"]]
          /\ UNCHANGED <<initializationPromise, pass, nextPass>>
     ELSE /\ nextPass <= MaxPasses
          /\ pass' = [pass EXCEPT ![nextPass] = NewPass("import", "root", NULL)]
          /\ initializationPromise' = nextPass
          /\ nextPass' = nextPass + 1
          /\ caller' = [caller EXCEPT ![c] = [st |-> "waiting", on |-> nextPass, epoch |-> resets,
                                              got |-> NULL, loc |-> "root"]]
  /\ lastAccess' = NoAccess
  /\ UNCHANGED <<chainVars, tagVars, unit, cachedProcessor, dataCache, initPromises, processorCache,
                 cachedConfig, processor, resets, cleanEpoch, fetches, failures, succeeded,
                 published>>

\* initializeTagsStore(config, options), up to its return
initializeTagsStore(c) ==
  /\ unit = "store"
  /\ Arrives(c)
  /\ IF cachedProcessor # NULL
     THEN \* fast path: already initialized
          /\ caller' = [caller EXCEPT ![c] = [st |-> "resolved", on |-> NULL, epoch |-> resets,
                                              got |-> cachedProcessor, loc |-> "root"]]
          /\ UNCHANGED <<initializationPromise, pass, nextPass>>
     ELSE IF initializationPromise = NULL
     THEN \* performInitialization runs to its first await (the dynamic import)
          /\ nextPass <= MaxPasses
          /\ pass' = [pass EXCEPT ![nextPass] = NewPass("import", "root", NULL)]
          /\ initializationPromise' = nextPass
          /\ nextPass' = nextPass + 1
          /\ caller' = [caller EXCEPT ![c] = [st |-> "waiting", on |-> nextPass, epoch |-> resets,
                                              got |-> NULL, loc |-> "root"]]
     ELSE \* all callers wait on the same shared promise
          /\ caller' = [caller EXCEPT ![c] = [st |-> "waiting", on |-> initializationPromise,
                                              epoch |-> resets, got |-> NULL, loc |-> "root"]]
          /\ UNCHANGED <<initializationPromise, pass, nextPass>>
  /\ lastAccess' = NoAccess
  /\ UNCHANGED <<chainVars, tagVars, unit, cachedProcessor, dataCache, initPromises, processorCache, cachedConfig,
                 processor, resets, cleanEpoch, fetches, failures, succeeded, published>>

\* performInitialization: import('astro:content') resolved, getCollection('docs') is called
performInitialization_import(p) ==
  /\ unit = "store"
  /\ pass[p].pc = "import"
  /\ pass' = [pass EXCEPT ![p].pc = "fetch"]
  /\ fetches' = Bump(fetches, "root")
  /\ lastAccess' = NoAccess
  /\ UNCHANGED <<chainVars, tagVars, unit, cachedProcessor, initializationPromise, dataCache, initPromises,
                 processorCache, cachedConfig, processor, caller, nextPass, resets, cleanEpoch,
                 failures, succeeded, published>>

\* a variant for the check of C5: the processor is cached as soon as it is constructed,
\* before its initialize() has run
performInitialization_create_early(p) ==
  /\ unit = "store"
  /\ pass[p].pc = "fetch"
  /\ pass' = [pass EXCEPT ![p].pc = "load", ![p].proc = p]
  /\ processor' = [processor EXCEPT ![p] = [config |-> TRUE, processedTags |-> FALSE, map |-> {}]]
  /\ cachedProcessor' = p
  /\ lastAccess' = NoAccess
  /\ UNCHANGED <<chainVars, tagVars, unit, initializationPromise, dataCache, initPromises,
                 processorCache, cachedConfig, caller, nextPass, resets, cleanEpoch, fetches,
                 failures, succeeded, published>>

\* performInitialization: the corpus arrived; new TagsProcessor(...), processor.initialize()
\* runs to its first await (fs.readFile in loadTagsConfig)
performInitialization_create(p) ==
  /\ unit = "store"
  /\ pass[p].pc = "fetch"
  /\ pass' = [pass EXCEPT ![p].pc = "load", ![p].proc = p]
  /\ processor' = [processor EXCEPT ![p] = [config |-> TRUE, processedTags |-> FALSE, map |-> {}]]
  /\ lastAccess' = NoAccess
  /\ UNCHANGED <<chainVars, tagVars, unit, cachedProcessor, initializationPromise, dataCache, initPromises,
                 processorCache, cachedConfig, caller, nextPass, resets, cleanEpoch, fetches,
                 failures, succeeded, published>>

\* TagsProcessor.initialize(): the file was read and parsed; processTagsData builds the
\* Map and the relationship graphs synchronously, then awaits validateInlineTags
TagsProcessor_processTagsData(p) ==
  /\ pass[p].pc = "load"
  /\ processor[p].config
  /\ pass' = [pass EXCEPT ![p].pc = "validate"]
  /\ processor' = [processor EXCEPT ![p].processedTags = TRUE, ![p].map = TagIds]
  /\ lastAccess' = NoAccess
  /\ UNCHANGED <<chainVars, tagVars, unit, cachedProcessor, initializationPromise, dataCache, initPromises,
                 processorCache, cachedConfig, caller, nextPass, resets, cleanEpoch, fetches,
                 failures, succeeded, published>>

\* performInitialization: processor.initialize() resolved; cachedProcessor = processor
performInitialization_done(p) ==
  /\ unit = "store"
  /\ pass[p].pc = "validate"
  /\ pass' = [pass EXCEPT ![p].pc = "ok"]
  /\ cachedProcessor' = p
  /\ caller' = Settle(p, "resolved", p)
  /\ succeeded' = [succeeded EXCEPT !["root"] = TRUE]
  /\ lastAccess' = NoAccess
  /\ UNCHANGED <<chainVars, tagVars, unit, initializationPromise, dataCache, initPromises, processorCache,
                 cachedConfig, processor, nextPass, resets, cleanEpoch, fetches, failures,
                 published>>

\* a variant for the check of C3: the catch block clears the processor but leaves the
\* rejected promise in place
performInitialization_catch_keepsPromise(p) ==
  /\ unit = "store"
  /\ pass[p].pc \in Awaiting
  /\ pass' = [pass EXCEPT ![p].pc = "failed"]
  /\ cachedProcessor' = NULL
  /\ caller' = Settle(p, "rejected", NULL)
  /\ failures' = Bump(failures, "root")
  /\ lastAccess' = NoAccess
  /\ UNCHANGED <<chainVars, tagVars, unit, initializationPromise, dataCache, initPromises,
                 processorCache, cachedConfig, processor, nextPass, resets, cleanEpoch, fetches,
                 succeeded, published>>

\* performInitialization: an awaited promise rejected; the catch block
performInitialization_catch(p) ==
  /\ unit = "store"
  /\ pass[p].pc \in Awaiting
  /\ pass' = [pass EXCEPT ![p].pc = "failed"]
  /\ initializationPromise' = NULL
  /\ cachedProcessor' = NULL
  /\ caller' = Settle(p, "rejected", NULL)
  /\ failures' = Bump(failures, "root")
  /\ lastAccess' = NoAccess
  /\ UNCHANGED <<chainVars, tagVars, unit, dataCache, initPromises, processorCache, cachedConfig, processor,
                 nextPass, resets, cleanEpoch, fetches, succeeded, published>>

\* ensureInitialized(): the processor, or the error thrown
ensureInitialized ==
  IF cachedProcessor = NULL
  THEN [threw |-> TRUE, message |-> NotInitializedMessage, processor |-> NULL]
  ELSE [threw |-> FALSE, message |-> "", processor |-> cachedProcessor]

\* getTag, getTags, ... getLearningPath: ensureInitialized().<fn>(...)
Accessor(fn) ==
  /\ unit \in {"store", "store011"}
  /\ LET r == ensureInitialized IN
     /\ lastAccess' = [fn |-> fn, threw |-> r.threw, message |-> r.message,
                       initialized |-> succeeded["root"]]
     /\ published' = IF unit = "store" /\ fn = "getTags" /\ ~r.threw
                        /\ processor[r.processor].processedTags
                     THEN published \cup {r.processor} ELSE published
  /\ UNCHANGED <<chainVars, tagVars, unit, cachedProcessor, initializationPromise, dataCache, initPromises,
                 processorCache, cachedConfig, pass, processor, caller, nextPass, resets,
                 cleanEpoch, fetches, failures, succeeded>>

\* isInitialized()
isInitialized == cachedProcessor # NULL

\* what a reset records: the epoch is clean when no pass of the locale is still running
ResetHistory ==
  /\ resets < MaxResets
  /\ resets' = resets + 1
  /\ cleanEpoch' = [l \in Locales |-> \A p \in Passes : ~(pass[p].loc = l /\ pass[p].pc \in Running)]
  /\ fetches' = [l \in Locales |-> 0]
  /\ failures' = [l \in Locales |-> 0]
  /\ succeeded' = [l \in Locales |-> FALSE]
  /\ lastAccess' = NoAccess

\* resetTagsStore()
resetTagsStore ==
  /\ unit = "store"
  /\ processor' = cleanup(processor, cachedProcessor)
  /\ cachedProcessor' = NULL
  /\ initializationPromise' = NULL
  /\ ResetHistory
  /\ UNCHANGED <<chainVars, tagVars, unit, dataCache, initPromises, processorCache, cachedConfig, pass, caller,
                 nextPass, published>>

\* ==== the earlier tags store, src/unnamed/part_011 lines 207-378 ====

\* initializeTagsStore(config, options), up to its return
initializeTagsStore_011(c) ==
  /\ unit = "store011"
  /\ Arrives(c)
  /\ IF cachedProcessor # NULL
     THEN \* return early if already initialized
          /\ caller' = [caller EXCEPT ![c] = [st |-> "resolved", on |-> NULL, epoch |-> resets,
                                              got |-> cachedProcessor, loc |-> "root"]]
          /\ UNCHANGED <<initializationPromise, pass, nextPass>>
     ELSE IF initializationPromise # NULL
     THEN \* initialization is in progress: wait for it
          /\ caller' = [caller EXCEPT ![c] = [st |-> "waiting", on |-> initializationPromise,
                                              epoch |-> resets, got |-> NULL, loc |-> "root"]]
          /\ UNCHANGED <<initializationPromise, pass, nextPass>>
     ELSE \* the async arrow runs to its first await (the dynamic import)
          /\ nextPass <= MaxPasses
          /\ pass' = [pass EXCEPT ![nextPass] = NewPass("import", "root", NULL)]
          /\ initializationPromise' = nextPass
          /\ nextPass' = nextPass + 1
          /\ caller' = [caller EXCEPT ![c] = [st |-> "waiting", on |-> nextPass, epoch |-> resets,
                                              got |-> NULL, loc |-> "root"]]
  /\ lastAccess' = NoAccess
  /\ UNCHANGED <<chainVars, tagVars, unit, cachedProcessor, dataCache, initPromises, processorCache, cachedConfig,
                 processor, resets, cleanEpoch, fetches, failures, succeeded, published>>

\* import('astro:content') resolved, getCollection('docs') is called
initializeTagsStore_011_import(p) ==
  /\ unit = "store011"
  /\ pass[p].pc = "import"
  /\ pass' = [pass EXCEPT ![p].pc = "fetch"]
  /\ fetches' = Bump(fetches, "root")
  /\ lastAccess' = NoAccess
  /\ UNCHANGED <<chainVars, tagVars, unit, cachedProcessor, initializationPromise, dataCache, initPromises,
                 processorCache, cachedConfig, processor, caller, nextPass, resets, cleanEpoch,
                 failures, succeeded, published>>

\* the corpus arrived: cachedProcessor = new TagsProcessor(...); cachedProcessor.initialize()
\* runs to its first await
initializeTagsStore_011_create(p) ==
  /\ unit = "store011"
  /\ pass[p].pc = "fetch"
  /\ pass' = [pass EXCEPT ![p].pc = "load", ![p].proc = p]
  /\ processor' = [processor EXCEPT ![p] = [config |-> TRUE, processedTags |-> FALSE, map |-> {}]]
  /\ cachedProcessor' = p
  /\ lastAccess' = NoAccess
  /\ UNCHANGED <<chainVars, tagVars, unit, initializationPromise, dataCache, initPromises, processorCache,
                 cachedConfig, caller, nextPass, resets, cleanEpoch, fetches, failures,
                 succeeded, published>>

\* cachedProcessor.initialize() resolved: the async arrow returns
initializeTagsStore_011_done(p) ==
  /\ unit = "store011"
  /\ pass[p].pc = "validate"
  /\ pass' = [pass EXCEPT ![p].pc = "ok"]
  /\ caller' = Settle(p, "resolved", cachedProcessor)
  /\ succeeded' = [succeeded EXCEPT !["root"] = TRUE]
  /\ lastAccess' = NoAccess
  /\ UNCHANGED <<chainVars, tagVars, unit, cachedProcessor, initializationPromise, dataCache, initPromises,
                 processorCache, cachedConfig, processor, nextPass, resets, cleanEpoch, fetches,
                 failures, published>>

\* an awaited promise rejected; the catch block
initializeTagsStore_011_catch(p) ==
  /\ unit = "store011"
  /\ pass[p].pc \in Awaiting
  /\ pass' = [pass EXCEPT ![p].pc = "failed"]
  /\ cachedProcessor' = NULL
  /\ initializationPromise' = NULL
  /\ caller' = Settle(p, "rejected", NULL)
  /\ failures' = Bump(failures, "root")
  /\ lastAccess' = NoAccess
  /\ UNCHANGED <<chainVars, tagVars, unit, dataCache, initPromises, processorCache, cachedConfig, processor,
                 nextPass, resets, cleanEpoch, fetches, succeeded, published>>

\* resetTagsStore()
resetTagsStore_011 ==
  /\ unit = "store011"
  /\ cachedProcessor' = NULL
  /\ initializationPromise' = NULL
  /\ ResetHistory
  /\ UNCHANGED <<chainVars, tagVars, unit, dataCache, initPromises, processorCache, cachedConfig, pass, processor,
                 caller, nextPass, published>>

\* ==== the data module, src/unnamed/part_012 lines 395-564 ====

\* getTagsData(locale), up to its return: the fast path, the in-flight promise, or a new
\* async arrow that runs (into ensureProcessor) to its first await
getTagsData(c, l) ==
  /\ unit = "data"
  /\ Arrives(c)
  /\ IF dataCache[l] # NULL
     THEN /\ caller' = [caller EXCEPT ![c] = [st |-> "resolved", on |-> NULL, epoch |-> resets,
                                              got |-> dataCache[l], loc |-> l]]
          /\ published' = IF pass[dataCache[l]].dataTags > NULL
                          THEN published \cup {pass[dataCache[l]].dataTags} ELSE published
          /\ UNCHANGED <<initPromises, pass, nextPass>>
     ELSE IF initPromises[l] # NULL
     THEN /\ caller' = [caller EXCEPT ![c] = [st |-> "waiting", on |-> initPromises[l],
                                              epoch |-> resets, got |-> NULL, loc |-> l]]
          /\ UNCHANGED <<initPromises, pass, nextPass, published>>
     ELSE /\ nextPass <= MaxPasses
          /\ pass' = [pass EXCEPT ![nextPass] =
                        IF processorCache[l] # NULL THEN NewPass("cache", l, processorCache[l])
                        ELSE IF ~cachedConfig THEN NewPass("config", l, NULL)
                        ELSE NewPass("import", l, NULL)]
          /\ initPromises' = [initPromises EXCEPT ![l] = nextPass]
          /\ nextPass' = nextPass + 1
          /\ caller' = [caller EXCEPT ![c] = [st |-> "waiting", on |-> nextPass, epoch |-> resets,
                                              got |-> NULL, loc |-> l]]
          /\ UNCHANGED published
  /\ lastAccess' = NoAccess
  /\ UNCHANGED <<chainVars, tagVars, unit, cachedProcessor, initializationPromise, dataCache, processorCache,
                 cachedConfig, processor, resets, cleanEpoch, fetches, failures, succeeded>>

\* ensureProcessor: import('virtual:starlight-tagging/config') resolved; cachedConfig = config
ensureProcessor_config(p) ==
  /\ unit = "data"
  /\ pass[p].pc = "config"
  /\ cachedConfig' = TRUE
  /\ pass' = [pass EXCEPT ![p].pc = "import"]
  /\ lastAccess' = NoAccess
  /\ UNCHANGED <<chainVars, tagVars, unit, cachedProcessor, initializationPromise, dataCache, initPromises,
                 processorCache, processor, caller, nextPass, resets, cleanEpoch, fetches,
                 failures, succeeded, published>>

\* ensureProcessor: import('astro:content') resolved, getCollection('docs') is called
ensureProcessor_import(p) ==
  /\ unit = "data"
  /\ pass[p].pc = "import"
  /\ pass' = [pass EXCEPT ![p].pc = "fetch"]
  /\ fetches' = Bump(fetches, pass[p].loc)
  /\ lastAccess' = NoAccess
  /\ UNCHANGED <<chainVars, tagVars, unit, cachedProcessor, initializationPromise, dataCache, initPromises,
                 processorCache, cachedConfig, processor, caller, nextPass, resets, cleanEpoch,
                 failures, succeeded, published>>

\* ensureProcessor: the corpus arrived; new TagsProcessor(cachedConfig!, ...), and
\* processor.initialize() runs to its first await
ensureProcessor_create(p) ==
  /\ unit = "data"
  /\ pass[p].pc = "fetch"
  /\ pass' = [pass EXCEPT ![p].pc = "load", ![p].proc = p]
  /\ processor' = [processor EXCEPT ![p] = [config |-> cachedConfig, processedTags |-> FALSE,
                                            map |-> {}]]
  /\ lastAccess' = NoAccess
  /\ UNCHANGED <<chainVars, tagVars, unit, cachedProcessor, initializationPromise, dataCache, initPromises,
                 processorCache, cachedConfig, caller, nextPass, resets, cleanEpoch, fetches,
                 failures, succeeded, published>>

\* ensureProcessor: processor.initialize() resolved; processorCache.set(cacheKey, processor);
\* the processor is returned to the awaiting arrow of getTagsData
ensureProcessor_done(p) ==
  /\ unit = "data"
  /\ pass[p].pc = "validate"
  /\ pass' = [pass EXCEPT ![p].pc = "cache"]
  /\ processorCache' = [processorCache EXCEPT ![pass[p].loc] = p]
  /\ lastAccess' = NoAccess
  /\ UNCHANGED <<chainVars, tagVars, unit, cachedProcessor, initializationPromise, dataCache, initPromises,
                 cachedConfig, processor, caller, nextPass, resets, cleanEpoch, fetches,
                 failures, succeeded, published>>

\* getTagsData's arrow after await ensureProcessor: build the data, dataCache.set, and the
\* finally block initPromises.delete(cacheKey); the promise resolves with the data
getTagsData_build(p) ==
  /\ unit = "data"
  /\ pass[p].pc = "cache"
  /\ LET tags == getTagsOf(processor, pass[p].proc)
         handed == IF tags > NULL /\ \E c \in Callers : caller[c].st = "waiting" /\ caller[c].on = p
                   THEN {tags} ELSE {}
     IN /\ pass' = [pass EXCEPT ![p].pc = "ok", ![p].dataTags = tags]
        /\ published' = published \cup handed
  /\ dataCache' = [dataCache EXCEPT ![pass[p].loc] = p]
  /\ initPromises' = [initPromises EXCEPT ![pass[p].loc] = NULL]
  /\ caller' = Settle(p, "resolved", p)
  /\ succeeded' = [succeeded EXCEPT ![pass[p].loc] = TRUE]
  /\ lastAccess' = NoAccess
  /\ UNCHANGED <<chainVars, tagVars, unit, cachedProcessor, initializationPromise, processorCache, cachedConfig,
                 processor, nextPass, resets, cleanEpoch, fetches, failures>>

\* an awaited promise rejected: ensureProcessor's catch (cleanup of the processor it had
\* created, rethrow) and the arrow's finally block; the promise rejects
getTagsData_catch(p) ==
  /\ unit = "data"
  /\ pass[p].pc \in Awaiting
  /\ pass' = [pass EXCEPT ![p].pc = "failed"]
  /\ processor' = cleanup(processor, pass[p].proc)
  /\ initPromises' = [initPromises EXCEPT ![pass[p].loc] = NULL]
  /\ caller' = Settle(p, "rejected", NULL)
  /\ failures' = Bump(failures, pass[p].loc)
  /\ lastAccess' = NoAccess
  /\ UNCHANGED <<chainVars, tagVars, unit, cachedProcessor, initializationPromise, dataCache, processorCache,
                 cachedConfig, nextPass, resets, cleanEpoch, fetches, succeeded, published>>

RECURSIVE cleanupAll(_, _)
cleanupAll(procs, ls) ==
  IF ls = {} THEN procs
  ELSE LET l == CHOOSE x \in ls : TRUE
       IN cleanupAll(cleanup(procs, processorCache[l]), ls \ {l})

\* resetDataCache()
resetDataCache ==
  /\ unit = "data"
  /\ dataCache' = [l \in Locales |-> NULL]
  /\ initPromises' = [l \in Locales |-> NULL]
  /\ processor' = cleanupAll(processor, Locales)
  /\ processorCache' = [l \in Locales |-> NULL]
  /\ cachedConfig' = FALSE
  /\ ResetHistory
  /\ UNCHANGED <<chainVars, tagVars, unit, cachedProcessor, initializationPromise, pass, caller, nextPass,
                 published>>

\* ---- the chain machine is idle while a store runs (defined below) ----

StoreNext ==
  \/ \E c \in Callers : initializeTagsStore(c)
  \/ \E p \in Passes : performInitialization_import(p)
  \/ \E p \in Passes : performInitialization_create(p)
  \/ \E p \in Passes : TagsProcessor_processTagsData(p)
  \/ \E p \in Passes : performInitialization_done(p)
  \/ \E p \in Passes : performInitialization_catch(p)
  \/ \E fn \in AccessorNames : Accessor(fn)
  \/ resetTagsStore
  \/ \E c \in Callers : initializeTagsStore_011(c)
  \/ \E p \in Passes : initializeTagsStore_011_import(p)
  \/ \E p \in Passes : initializeTagsStore_011_create(p)
  \/ \E p \in Passes : initializeTagsStore_011_done(p)
  \/ \E p \in Passes : initializeTagsStore_011_catch(p)
  \/ resetTagsStore_011
  \/ \E c \in Callers, l \in Locales : getTagsData(c, l)
  \/ \E p \in Passes : ensureProcessor_config(p)
  \/ \E p \in Passes : ensureProcessor_import(p)
  \/ \E p \in Passes : ensureProcessor_create(p)
  \/ \E p \in Passes : ensureProcessor_done(p)
  \/ \E p \in Passes : getTagsData_build(p)
  \/ \E p \in Passes : getTagsData_catch(p)
  \/ resetDataCache

vars == <<storeVars, chainVars, tagVars>>

Init == unit \in Units /\ StoreIdle /\ ChainIdle /\ TagsIdle
Next == StoreNext
Spec == Init /\ [][Next]_vars

\* ==== the claims about the stores ====

WaitingOn(p) == {c \in Callers : caller[c].st = "waiting" /\ caller[c].on = p}
RunningPasses(l) == {p \in Passes : pass[p].loc = l /\ pass[p].pc \in Running}
StartedPasses(l) == {p \in Passes : pass[p].loc = l /\ pass[p].pc # "none" /\ pass[p].epoch = resets}
Pending(l) == IF unit = "data" THEN initPromises[l] ELSE initializationPromise
CallersOf(l) == {c \in Callers : caller[c].st # "idle" /\ caller[c].loc = l /\ caller[c].epoch = resets}

C2_AtMostOnePassInFlight ==
  unit = "data" =>
    \A l \in Locales : Cardinality({p \in Passes : pass[p].loc = l /\ pass[p].pc \in Awaiting}) <= 1

\* C3: when a pass of the tags store fails, that step clears the in-flight promise and the
\* cached processor together, rejects every caller waiting on the pass and leaves
\* isInitialized() false; a call made in that state starts a new pass and awaits it.
C3_FailureClearsAndRetries ==
  [][unit = "store" =>
       /\ \A p \in Passes : (pass[p].pc # "failed" /\ pass'[p].pc = "failed") =>
            /\ initializationPromise' = NULL
            /\ cachedProcessor' = NULL
            /\ ~isInitialized'
            /\ \A c \in WaitingOn(p) : caller'[c].st = "rejected"
       /\ \A c \in Callers :
            (/\ caller[c].st = "idle" /\ caller'[c].st # "idle"
             /\ ~isInitialized
             /\ \E p \in Passes : pass[p].pc = "failed" /\ pass[p].epoch = resets
             /\ \A p \in Passes : pass[p].epoch = resets => pass[p].pc \notin Running)
            => /\ caller'[c].st = "waiting"
               /\ caller'[c].on = nextPass
               /\ pass[nextPass].pc = "none" /\ pass'[nextPass].pc = "import"
               /\ initializationPromise' = nextPass
    ]_vars

\* C3 witness: a caller was rejected by a failed pass and a later call of the same epoch
\* started a new pass.
C3_Witness ==
  /\ unit = "store"
  /\ \E p, q \in Passes, c, d \in Callers :
       /\ pass[p].pc = "failed" /\ caller[c].st = "rejected" /\ caller[c].on = p
       /\ q > p /\ pass[q].epoch = pass[p].epoch /\ pass[q].pc \in Running
       /\ caller[d].st = "waiting" /\ caller[d].on = q /\ d > c

\* C4 (as claimed): once a pass has completed successfully since the last reset, a further
\* initializeTagsStore / getTagsData call starts no pass and no fetch, returns at once, and
\* yields the same data as every earlier resolved call since that reset.
C4_Memoized ==
  [][\A c \in Callers :
       (/\ unit \in {"store", "data"}
        /\ caller[c].st = "idle" /\ caller'[c].st # "idle"
        /\ succeeded[caller'[c].loc])
       => /\ nextPass' = nextPass
          /\ fetches' = fetches
          /\ caller'[c].st = "resolved"
          /\ \A d \in Callers :
               (caller[d].st = "resolved" /\ caller[d].epoch = resets
                  /\ caller[d].loc = caller'[c].loc)
               => caller[d].got = caller'[c].got
    ]_vars

\* C5: a read accessor of the tags store called when no initialization has completed
\* successfully since the last reset throws the error that names initializeTagsStore;
\* in every such state ensureInitialized throws.
C5_AccessorsFailFast ==
  unit = "store" =>
    /\ (~succeeded["root"] => ensureInitialized.threw
                              /\ ensureInitialized.message = NotInitializedMessage)
    /\ (lastAccess.fn # "none" /\ ~lastAccess.initialized) =>
         /\ lastAccess.threw
         /\ lastAccess.message = NotInitializedMessage

\* C5 witness: getLearningPath has just thrown while a pass was still in flight.
C5_Witness ==
  /\ unit = "store"
  /\ lastAccess.fn = "getLearningPath" /\ lastAccess.threw
  /\ \E p \in Passes : pass[p].pc = "validate" /\ initializationPromise = p

\* C6 (as claimed): in the store of part_011 lines 207-378, isInitialized() is true only
\* when the cached processor's initialize() has completed successfully.
C6_FlagAgreesWithData ==
  (unit = "store011" /\ isInitialized) =>
    /\ pass[cachedProcessor].pc = "ok"
    /\ processor[cachedProcessor].processedTags

\* C7 (as claimed): a caller of getTagsData is given only data computed by a pass that
\* started after the last resetDataCache that preceded the call.
C7_FreshAfterReset ==
  unit = "data" =>
    \A c \in Callers : caller[c].st = "resolved" =>
      /\ pass[caller[c].got].epoch >= caller[c].epoch
      /\ pass[pass[caller[c].got].proc].epoch >= caller[c].epoch

\* C8 (as claimed): a tag Map that was handed to a reader keeps its key set and entries in
\* every later state, after resets and cleanup() too.
C8_PublishedMapImmutable ==
  [][\A q \in published : processor'[q].map = processor[q].map]_vars

\* ==== TagsProcessor: the prerequisite chain, src/packages/starlight-tags/src/libs/url.ts ====

Range(s) == {s[i] : i \in 1..Len(s)}

\* a variant for the check of C11: the chain is returned as collected
Dedupe_kept(s) == s

\* Array.from(new Set(chain)): first occurrences, in order
RECURSIVE Dedupe(_)
Dedupe(s) ==
  IF s = <<>> THEN <<>>
  ELSE LET front == Dedupe(SubSeq(s, 1, Len(s) - 1))
           last == s[Len(s)]
       IN IF last \in Range(front) THEN front ELSE Append(front, last)

\* a call of buildPrerequisiteChain(tagId, visited, path) that has entered its loop
Frame(tagId, visited, path) ==
  [tagId |-> tagId, visited |-> visited, path |-> path, i |-> 1, chain |-> <<>>]

\* a variant for the check of C9: the visited check is left out
buildPrerequisiteChain_entry_unchecked(tagId, visited) ==
  IF tagId \notin Tags \/ Len(prerequisites[tagId]) = 0 THEN "empty" ELSE "expand"

\* buildPrerequisiteChain, from its entry to its loop: the visited check (warn, return []),
\* the missing-tag / no-prerequisites check (return []), or the loop is entered
buildPrerequisiteChain_entry(tagId, visited) ==
  IF tagId \in visited THEN "cycle"
  ELSE IF tagId \notin Tags \/ Len(prerequisites[tagId]) = 0 THEN "empty"
  ELSE "expand"

\* calculateEducationalRelationships: the loop reaches the next tag and calls
\* buildPrerequisiteChain(tagId) with an empty visited set and path
calculateEducationalRelationships(tagId) ==
  /\ unit = "processor"
  /\ stack = <<>>
  /\ current = tagId
  /\ IF buildPrerequisiteChain_entry(tagId, {}) = "expand"
     THEN /\ stack' = <<Frame(tagId, {}, <<>>)>>
          /\ UNCHANGED <<prerequisiteChain, current>>
     ELSE /\ prerequisiteChain' = [prerequisiteChain EXCEPT ![tagId] = <<>>]
          /\ current' = current + 1
          /\ UNCHANGED stack
  /\ steps' = steps + 1
  /\ UNCHANGED <<prerequisites, warnings, storeVars, tagVars>>

\* buildPrerequisiteChain: one iteration of the loop over tag.prerequisites in the innermost
\* call, up to the recursive call entering its own loop or returning at once
buildPrerequisiteChain_loop ==
  /\ unit = "processor"
  /\ stack # <<>>
  /\ LET n == Len(stack)
         top == stack[n]
     IN /\ top.i <= Len(prerequisites[top.tagId])
        /\ LET prereqId == prerequisites[top.tagId][top.i]
               branchVisited == top.visited \cup {top.tagId}
               currentPath == Append(top.path, top.tagId)
           IN IF prereqId \notin Tags
              THEN \* processedTags.has(prereqId) is false
                   /\ stack' = [stack EXCEPT ![n].i = @ + 1]
                   /\ UNCHANGED warnings
              ELSE LET entry == buildPrerequisiteChain_entry(prereqId, branchVisited)
                       pushed == [stack EXCEPT ![n].chain = Append(@, prereqId)]
                   IN IF entry = "expand"
                      THEN /\ stack' = Append(pushed, Frame(prereqId, branchVisited, currentPath))
                           /\ UNCHANGED warnings
                      ELSE \* the call returned [] at once
                           /\ stack' = [pushed EXCEPT ![n].i = @ + 1]
                           /\ warnings' = IF entry = "cycle" THEN warnings + 1 ELSE warnings
  /\ steps' = steps + 1
  /\ UNCHANGED <<prerequisites, prerequisiteChain, current, storeVars, tagVars>>

\* buildPrerequisiteChain: the loop of the innermost call is over; it returns its
\* de-duplicated chain to its caller, which pushes it onto its own chain
buildPrerequisiteChain_return ==
  /\ unit = "processor"
  /\ stack # <<>>
  /\ LET n == Len(stack)
         top == stack[n]
         value == Dedupe(top.chain)
     IN /\ top.i > Len(prerequisites[top.tagId])
        /\ IF n = 1
           THEN /\ stack' = <<>>
                /\ prerequisiteChain' = [prerequisiteChain EXCEPT ![current] = value]
                /\ current' = current + 1
           ELSE /\ stack' = [SubSeq(stack, 1, n - 1) EXCEPT ![n - 1].chain = @ \o value,
                                                            ![n - 1].i = @ + 1]
                /\ UNCHANGED <<prerequisiteChain, current>>
  /\ steps' = steps + 1
  /\ UNCHANGED <<prerequisites, warnings, storeVars, tagVars>>

PrereqLists == UNION {[1..n -> Ids] : n \in 0..MaxPrereqs}

ChainInit ==
  /\ unit = "processor"
  /\ StoreIdle
  /\ TagsIdle
  /\ prerequisites \in [Tags -> PrereqLists]
  /\ stack = <<>>
  /\ prerequisiteChain = [t \in Tags |-> Unset]
  /\ current = 1
  /\ warnings = 0
  /\ steps = 0

ChainNext ==
  \/ \E t \in Tags : calculateEducationalRelationships(t)
  \/ buildPrerequisiteChain_loop
  \/ buildPrerequisiteChain_return

SpecChain == ChainInit /\ [][ChainNext]_vars

ChainDone == current = NumTags + 1 /\ stack = <<>>

\* the calls that can enter their loop while one tag's chain is computed, if no tag is
\* entered twice on a path: at most MaxPrereqs^d at depth d < NumTags
RECURSIVE FrameBound(_)
FrameBound(d) == IF d = 0 THEN 1 ELSE 1 + MaxPrereqs * FrameBound(d - 1)

\* one step to start each tag, and per call its loop iterations and its return
StepBound == NumTags * (1 + FrameBound(NumTags - 1) * (MaxPrereqs + 1))

\* some action of ChainNext is enabled: the loop over the tags is not over, or a call is
\* in progress (its loop iterates or it returns)
ChainCanStep == (stack = <<>> /\ current \in Tags) \/ stack # <<>>

\* C9: for every prerequisite graph, cycles and self-loops included, the computation of
\* every tag's prerequisiteChain terminates: it is never stuck before it is done and is
\* done within StepBound steps; and the calls in progress never hold a tag twice: a tag
\* already on the current path is not entered again.
C9_ChainTerminates ==
  unit = "processor" =>
    /\ ChainDone \/ ChainCanStep
    /\ steps <= StepBound
    /\ Len(stack) <= NumTags
    /\ \A i, j \in 1..Len(stack) : i # j => stack[i].tagId # stack[j].tagId
    /\ \A i \in 1..Len(stack) : stack[i].visited = {stack[j].tagId : j \in 1..(i - 1)}

\* C9 witness: the computation has finished for a graph in which tags 1 and 2 require each
\* other and tag 3 requires itself, and the cycles were met on the way.
C9_Witness ==
  /\ ChainDone
  /\ 2 \in Range(prerequisites[1]) /\ 1 \in Range(prerequisites[2])
  /\ 3 \in Range(prerequisites[3])
  /\ warnings >= 3

\* C10 (as claimed): no tag is an element of its own prerequisiteChain, whatever the graph.
C10_ChainExcludesSelf ==
  \A t \in Tags : prerequisiteChain[t] # Unset => t \notin Range(prerequisiteChain[t])

\* ==== TagsProcessor: initialize() and the queries, src/packages/starlight-tags/src/libs/url.ts ====

\* a tag ID that no definition has but every plain object inherits ("constructor")
InheritedId == 0

\* Array.prototype.includes
Includes(s, x) == \E i \in 1..Len(s) : s[i] = x

\* Array.prototype.slice(0, n)
Slice(s, n) == SubSeq(s, 1, IF Len(s) < n THEN Len(s) ELSE n)

\* Array.prototype.sort(compare): the stable sort; precedes[i][j] is
\* compare(s[i], s[j]) < 0
StableSort(s, precedes) ==
  LET n == Len(s)
      pos(i) == 1 + Cardinality({j \in 1..n : j # i /\ (\/ precedes[j][i]
                                                        \/ (~precedes[i][j] /\ j < i))})
  IN [k \in 1..n |-> s[CHOOSE i \in 1..n : pos(i) = k]]

\* processTagsData, the loops over docsEntries and entry.data.tags: one reference
\* {tagId, id} per element of every page's tags list, in corpus order
RECURSIVE References(_)
References(entries) ==
  IF entries = <<>> THEN <<>>
  ELSE LET entry == entries[Len(entries)]
       IN References(SubSeq(entries, 1, Len(entries) - 1))
            \o [i \in 1..Len(entry.tags) |-> [tagId |-> entry.tags[i], id |-> entry.id]]

\* tagUsage.get(tagId) || []: the PageReferences pushed for tagId; slug is entry.id
tagUsage(entries, tagId) ==
  LET refs == SelectSeq(References(entries), LAMBDA r : r.tagId = tagId)
  IN [i \in 1..Len(refs) |-> [id |-> refs[i].id, slug |-> refs[i].id]]

\* entriesById.get(id)?.data.tags || []: new Map(docsEntries.map(e => [e.id, e])) keeps the
\* last entry of an id
entriesById(entries, id) ==
  LET at == {i \in 1..Len(entries) : entries[i].id = id}
  IN IF at = {} THEN <<>>
     ELSE entries[CHOOSE i \in at : \A j \in at : j <= i].tags

\* processedTag.pages: each PageReference with slug: page.slug || page.id and the page's tags
PagesOf(entries, tagId) ==
  LET pages == tagUsage(entries, tagId)
  IN [i \in 1..Len(pages) |-> [id |-> pages[i].id, slug |-> pages[i].slug,
                               tags |-> entriesById(entries, pages[i].id)]]

MAX_RELATED_TAGS == 5
MAX_NEXT_STEPS == 5

\* buildPrerequisiteChain(tagId, visited) over the prerequisites lists pre of the defined
\* tags 1..Len(pre): the chain it returns and the circular-dependency warnings it logs;
\* ChainLoop is its for loop from the i-th prerequisite on, before the final de-duplication
RECURSIVE buildPrerequisiteChain(_, _, _), ChainLoop(_, _, _, _)
buildPrerequisiteChain(pre, tagId, visited) ==
  IF tagId \in visited THEN [chain |-> <<>>, warnings |-> 1]
  ELSE IF tagId \notin DOMAIN pre \/ Len(pre[tagId]) = 0 THEN [chain |-> <<>>, warnings |-> 0]
  ELSE LET loop == ChainLoop(pre, tagId, visited \cup {tagId}, 1)
       IN [chain |-> Dedupe(loop.chain), warnings |-> loop.warnings]

ChainLoop(pre, tagId, branchVisited, i) ==
  IF i > Len(pre[tagId]) THEN [chain |-> <<>>, warnings |-> 0]
  ELSE LET prereqId == pre[tagId][i]
           rest == ChainLoop(pre, tagId, branchVisited, i + 1)
       IN IF prereqId \notin DOMAIN pre THEN rest
          ELSE LET subChain == buildPrerequisiteChain(pre, prereqId, branchVisited)
               IN [chain |-> <<prereqId>> \o subChain.chain \o rest.chain,
                   warnings |-> subChain.warnings + rest.warnings]

\* findRelatedTags(tagId) over the tags built so far (id, prerequisites, pages)
findRelatedTags(tags, tagId) ==
  LET currentTag == tags[tagId]
      currentPageIds == {currentTag.pages[i].id : i \in 1..Len(currentTag.pages)}
      sharedPages(o) == Len(SelectSeq(tags[o].pages, LAMBDA pg : pg.id \in currentPageIds))
      score(o) == sharedPages(o) * 2
                    + (IF Includes(currentTag.prerequisites, o) THEN 3 ELSE 0)
                    + (IF Includes(tags[o].prerequisites, tagId) THEN 3 ELSE 0)
      scored == [o \in 1..Len(tags) |-> [id |-> o, score |-> score(o)]]
      related == SelectSeq(scored, LAMBDA r : r.id # tagId /\ r.score > 0)
      byScore == [i \in 1..Len(related) |->
                    [j \in 1..Len(related) |-> related[j].score - related[i].score < 0]]
      top == Slice(StableSort(related, byScore), MAX_RELATED_TAGS)
  IN [i \in 1..Len(top) |-> top[i].id]

\* findNextSteps(tagId) without the otherId === tagId skip
findNextSteps_withSelf(tags, tagId) ==
  Slice(SelectSeq([o \in 1..Len(tags) |-> o],
                  LAMBDA o : Includes(tags[o].prerequisites, tagId)), MAX_NEXT_STEPS)

\* findNextSteps(tagId)
findNextSteps(tags, tagId) ==
  LET others == SelectSeq([o \in 1..Len(tags) |-> o],
                          LAMBDA o : o # tagId /\ Includes(tags[o].prerequisites, tagId))
  IN Slice(others, MAX_NEXT_STEPS)

\* tagsData.tags[tagId] is truthy: an own key of the parsed table, or a property every plain
\* object inherits from Object.prototype
HasDefinition(data, tagId) == tagId \in DOMAIN data.tags \/ tagId = InheritedId

\* validateInlineTags(tagUsage): the keys of tagUsage that the definition table lacks
validateInlineTags(data, entries) ==
  LET refs == References(entries)
      keys == Dedupe([i \in 1..Len(refs) |-> refs[i].tagId])
  IN SelectSeq(keys, LAMBDA tagId : ~HasDefinition(data, tagId))

\* processTagsData, the loop over Object.entries(tagsData.tags): the ProcessedTag of every
\* defined tag before the relationships are computed
BuildTags(data, entries) ==
  [t \in 1..Len(data.tags) |->
     [id |-> t, label |-> data.tags[t].label, priority |-> data.tags[t].priority,
      prerequisites |-> data.tags[t].prerequisites,
      count |-> Len(tagUsage(entries, t)), pages |-> PagesOf(entries, t)]]

\* calculateEducationalRelationships as a whole: every tag gets its three relationship lists
WithRelationships(tags) ==
  LET pre == [t \in 1..Len(tags) |-> tags[t].prerequisites]
  IN [t \in 1..Len(tags) |->
        [id |-> tags[t].id, label |-> tags[t].label, priority |-> tags[t].priority,
         prerequisites |-> tags[t].prerequisites, count |-> tags[t].count,
         pages |-> tags[t].pages,
         prerequisiteChain |-> buildPrerequisiteChain(pre, t, {}).chain,
         relatedTags |-> findRelatedTags(tags, t),
         nextSteps |-> findNextSteps(tags, t)]]

RECURSIVE Sum(_)
Sum(s) == IF s = <<>> THEN 0 ELSE s[1] + Sum(Tail(s))

\* the circular-dependency warnings one calculateEducationalRelationships run logs
CycleWarnings(tags) ==
  LET pre == [t \in 1..Len(tags) |-> tags[t].prerequisites]
  IN Sum([t \in 1..Len(tags) |-> buildPrerequisiteChain(pre, t, {}).warnings])

\* initialize(): loadTagsConfig, from fs.readFile to the schema's verdict
loadTagsConfig ==
  /\ unit = "tags"
  /\ init.at = "new"
  /\ IF configFile = "valid"
     THEN /\ tagsData' = [tagsData EXCEPT !.loaded = TRUE]
          /\ init' = [init EXCEPT !.at = "loaded"]
     ELSE \* ENOENT, or yaml / schema rejected the content: both are rethrown
          /\ init' = [init EXCEPT !.at = "threw",
                                  !.error = IF configFile = "absent" THEN "not found"
                                            ELSE "invalid"]
          /\ UNCHANGED tagsData
  /\ answer' = NoAnswer
  /\ UNCHANGED <<storeVars, chainVars, configFile, docsEntries, onInlineTagsNotFound,
                 processedTags>>

\* initialize(): processTagsData, up to its await of validateInlineTags
processTagsData ==
  /\ unit = "tags"
  /\ init.at = "loaded"
  /\ IF ~tagsData.loaded
     THEN /\ init' = [init EXCEPT !.at = "processed"]
          /\ UNCHANGED processedTags
     ELSE LET tags == BuildTags(tagsData, docsEntries)
              undefinedTags == validateInlineTags(tagsData, docsEntries)
              checked == onInlineTagsNotFound # "ignore"
              found == checked /\ Len(undefinedTags) > 0
          IN /\ processedTags' = WithRelationships(tags)
             /\ init' = [init EXCEPT
                  !.built = TRUE,
                  !.cycleWarnings = @ + CycleWarnings(tags),
                  !.inlineWarnings = IF found /\ onInlineTagsNotFound # "error" THEN @ + 1 ELSE @,
                  !.error = IF found /\ onInlineTagsNotFound = "error" THEN "undefined tags" ELSE @,
                  !.at = IF found /\ onInlineTagsNotFound = "error" THEN "threw" ELSE "processed"]
  /\ answer' = NoAnswer
  /\ UNCHANGED <<storeVars, chainVars, configFile, tagsData, docsEntries, onInlineTagsNotFound>>

\* initialize(): processTagsData resolved; the closing logger.info, then it resolves
initialize_return ==
  /\ unit = "tags"
  /\ init.at = "processed"
  /\ init' = [init EXCEPT !.at = "done"]
  /\ answer' = NoAnswer
  /\ UNCHANGED <<storeVars, chainVars, configFile, tagsData, docsEntries, onInlineTagsNotFound,
                 processedTags>>

\* initialize() has resolved or rejected and the caller holds no result of an earlier
\* query: it can go on to query the processor
Settled == init.at \in {"done", "threw"} /\ answer = NoAnswer

\* the caller has used the result of its query
Resume ==
  /\ unit = "tags"
  /\ answer # NoAnswer
  /\ answer' = NoAnswer
  /\ UNCHANGED <<storeVars, chainVars, configFile, tagsData, docsEntries, onInlineTagsNotFound,
                 processedTags, init>>

\* this.getTags(): this.processedTags || new Map(), as the list of its values
getTagsValues == IF init.built THEN processedTags ELSE <<>>

\* String.prototype.localeCompare on the labels of the model: the collation order puts
\* "a" before "b" before "B" (letters first, lower case before upper case) ...
CollationRank(label) == CASE label = "a" -> 1 [] label = "b" -> 2 [] label = "B" -> 3
localeCompare(x, y) == CollationRank(x) - CollationRank(y)

\* ... while the relational operators compare UTF-16 code units: "B" < "a" < "b"
CodeUnitRank(label) == CASE label = "B" -> 66 [] label = "a" -> 97 [] label = "b" -> 98

\* a variant for the check of C14: the comparator skips the count
SortedBefore_skipsCount(a, b) ==
  LET priorityDiff == b.priority - a.priority
  IN IF priorityDiff # 0 THEN priorityDiff < 0
     ELSE localeCompare(a.label, b.label) < 0

\* getAllTagsSorted(): the comparator is negative
SortedBefore(a, b) ==
  LET priorityDiff == b.priority - a.priority
      countDiff == b.count - a.count
  IN IF priorityDiff # 0 THEN priorityDiff < 0
     ELSE IF countDiff # 0 THEN countDiff < 0
     ELSE localeCompare(a.label, b.label) < 0

\* getAllTagsSorted()
getAllTagsSorted ==
  /\ unit = "tags"
  /\ Settled
  /\ answer' = [fn |-> "getAllTagsSorted", at |-> init.at,
                tags |-> LET values == getTagsValues
                         IN StableSort(values,
                              [i \in 1..Len(values) |->
                                 [j \in 1..Len(values) |-> SortedBefore(values[i], values[j])]])]
  /\ UNCHANGED <<storeVars, chainVars, configFile, tagsData, docsEntries, onInlineTagsNotFound,
                 processedTags, init>>

\* getTags(), observed through its size
getTags ==
  /\ unit = "tags"
  /\ Settled
  /\ answer' = [fn |-> "getTags", at |-> init.at, size |-> Len(getTagsValues)]
  /\ UNCHANGED <<storeVars, chainVars, configFile, tagsData, docsEntries, onInlineTagsNotFound,
                 processedTags, init>>

\* getTagsForPage(pageSlug)
getTagsForPage(pageSlug) ==
  /\ unit = "tags"
  /\ Settled
  /\ answer' = [fn |-> "getTagsForPage", at |-> init.at, pageSlug |-> pageSlug,
                tags |-> SelectSeq(getTagsValues,
                           LAMBDA tag : \E i \in 1..Len(tag.pages) : tag.pages[i].slug = pageSlug)]
  /\ UNCHANGED <<storeVars, chainVars, configFile, tagsData, docsEntries, onInlineTagsNotFound,
                 processedTags, init>>

\* a variant for the check of C18: the inner loop stops at a tag's first invalid prerequisite
RECURSIVE PrerequisiteErrors_firstOnly(_, _)
PrerequisiteErrors_firstOnly(tags, t) ==
  IF t > Len(tags) THEN <<>>
  ELSE LET bad == Slice(SelectSeq(tags[t].prerequisites,
                                  LAMBDA prereqId : prereqId \notin DOMAIN tags), 1)
       IN [i \in 1..Len(bad) |-> [tagId |-> t, prereqId |-> bad[i]]]
            \o PrerequisiteErrors_firstOnly(tags, t + 1)

\* validatePrerequisites(): the errors in the order they are pushed
RECURSIVE PrerequisiteErrors(_, _)
PrerequisiteErrors(tags, t) ==
  IF t > Len(tags) THEN <<>>
  ELSE LET bad == SelectSeq(tags[t].prerequisites, LAMBDA prereqId : prereqId \notin DOMAIN tags)
       IN [i \in 1..Len(bad) |-> [tagId |-> t, prereqId |-> bad[i]]]
            \o PrerequisiteErrors(tags, t + 1)

validatePrerequisites ==
  /\ unit = "tags"
  /\ Settled
  /\ answer' =
       IF ~init.built
       THEN [fn |-> "validatePrerequisites", at |-> init.at, isValid |-> FALSE,
             errors |-> <<"Tags not initialized">>]
       ELSE LET errors == PrerequisiteErrors(processedTags, 1)
            IN [fn |-> "validatePrerequisites", at |-> init.at, isValid |-> Len(errors) = 0,
                errors |-> errors]
  /\ UNCHANGED <<storeVars, chainVars, configFile, tagsData, docsEntries, onInlineTagsNotFound,
                 processedTags, init>>

\* getLearningPath: the path rebuilt from the parent map (a set of <<node, parent>> pairs)
RECURSIVE PathTo(_, _)
PathTo(parent, node) ==
  IF \E pr \in parent : pr[1] = node
  THEN PathTo(parent, (CHOOSE pr \in parent : pr[1] = node)[2]) \o <<node>>
  ELSE <<>>

\* a variant for the check of C15: only the first unvisited next step of a tag is queued
RECURSIVE LearningPathSearch_firstOnly(_, _, _, _, _, _)
LearningPathSearch_firstOnly(tags, startTagId, endTagId, queue, visited, parent) ==
  IF queue = <<>> THEN <<>>
  ELSE LET node == Head(queue)
       IN IF node = endTagId
          THEN <<startTagId>> \o PathTo(parent, endTagId)
          ELSE LET fresh == Slice(SelectSeq(tags[node].nextSteps,
                                            LAMBDA nextStep : nextStep \notin visited), 1)
               IN LearningPathSearch_firstOnly(tags, startTagId, endTagId, Tail(queue) \o fresh,
                                     visited \cup Range(fresh),
                                     parent \cup {<<fresh[i], node>> : i \in 1..Len(fresh)})

\* getLearningPath: the while loop of the breadth-first search
RECURSIVE LearningPathSearch(_, _, _, _, _, _)
LearningPathSearch(tags, startTagId, endTagId, queue, visited, parent) ==
  IF queue = <<>> THEN <<>>
  ELSE LET node == Head(queue)
       IN IF node = endTagId
          THEN <<startTagId>> \o PathTo(parent, endTagId)
          ELSE LET fresh == Dedupe(SelectSeq(tags[node].nextSteps,
                                             LAMBDA nextStep : nextStep \notin visited))
               IN LearningPathSearch(tags, startTagId, endTagId, Tail(queue) \o fresh,
                                     visited \cup Range(fresh),
                                     parent \cup {<<fresh[i], node>> : i \in 1..Len(fresh)})

\* this.processedTags?.get(tagId) is defined
HasTag(tagId) == init.built /\ tagId \in DOMAIN processedTags

\* getLearningPath(startTagId, endTagId)
getLearningPath(startTagId, endTagId) ==
  /\ unit = "tags"
  /\ Settled
  /\ answer' = [fn |-> "getLearningPath", at |-> init.at, start |-> startTagId, end |-> endTagId,
                path |-> IF ~HasTag(startTagId) \/ ~HasTag(endTagId) THEN <<>>
                         ELSE LearningPathSearch(processedTags, startTagId, endTagId,
                                                 <<startTagId>>, {startTagId}, {})]
  /\ UNCHANGED <<storeVars, chainVars, configFile, tagsData, docsEntries, onInlineTagsNotFound,
                 processedTags, init>>

\* getLearningPath(startTagId) without an end tag: the start tag's nextSteps
getLearningPath_nextSteps(startTagId) ==
  /\ unit = "tags"
  /\ Settled
  /\ answer' = [fn |-> "getLearningPath_nextSteps", at |-> init.at, start |-> startTagId,
                path |-> IF ~HasTag(startTagId) THEN <<>> ELSE processedTags[startTagId].nextSteps]
  /\ UNCHANGED <<storeVars, chainVars, configFile, tagsData, docsEntries, onInlineTagsNotFound,
                 processedTags, init>>

\* the arguments the queries are tried with: every slug and id of the corpus and one that
\* no page has; every defined tag and one undefined ID
PageSlugs ==
  {docsEntries[i].id : i \in 1..Len(docsEntries)}
    \cup {docsEntries[i].slug : i \in 1..Len(docsEntries)} \cup {"none"}

QueryIds == 1..(Len(tagsData.tags) + 1)

\* initialize(), step by step
InitializeNext ==
  \/ loadTagsConfig
  \/ processTagsData
  \/ initialize_return

\* a tag definition of tags.yml after the schema: priority defaults to 0
Definition(label, priority, pre) == [label |-> label, priority |-> priority, prerequisites |-> pre]

\* the lists of at most MaxPrereqs IDs drawn from ids
ListsOver(ids) == UNION {[1..n -> ids] : n \in 0..MaxPrereqs}

\* a processor constructed over a definition table and a corpus, initialize() not yet called
Constructed(file, definitions, entries, policy) ==
  /\ unit = "tags"
  /\ StoreIdle
  /\ ChainIdle
  /\ configFile = file
  /\ tagsData = [loaded |-> FALSE, tags |-> definitions]
  /\ docsEntries = entries
  /\ onInlineTagsNotFound = policy
  /\ processedTags = <<>>
  /\ init = NewProcessor
  /\ answer = NoAnswer

\* ---- acyclic prerequisite graphs ----

DagTags == 5

\* every acyclic graph over the defined tags t..DagTags, up to renaming: a tag requires
\* only tags that come later in the table
RECURSIVE DagsFrom(_)
DagsFrom(t) ==
  IF t > DagTags THEN {<<>>}
  ELSE {<<pre>> \o rest : pre \in ListsOver((t + 1)..DagTags), rest \in DagsFrom(t + 1)}

DagInit ==
  \E pre \in DagsFrom(1) :
    Constructed("valid", [t \in 1..DagTags |-> Definition("a", 0, pre[t])], <<>>, "warn")

SpecDag == DagInit /\ [][InitializeNext]_vars

\* the tags reachable from the tags of frontier over one or more prerequisite edges
RECURSIVE Reach(_, _, _)
Reach(tags, frontier, seen) ==
  LET next == UNION {Range(tags[t].prerequisites) \cap DOMAIN tags : t \in frontier} \ seen
  IN IF next = {} THEN seen ELSE Reach(tags, next, seen \cup next)

TransitivePrerequisites(tags, t) == Reach(tags, {t}, {})

Acyclic(tags) == \A t \in DOMAIN tags : t \notin TransitivePrerequisites(tags, t)

NoDuplicates(s) == \A i, j \in 1..Len(s) : i # j => s[i] # s[j]

\* C11: when the prerequisite graph over the defined tags is acyclic (diamonds included),
\* every tag's prerequisiteChain holds each of its transitive prerequisites exactly once
\* and nothing else, and no circular-dependency warning is logged.
C11_DiamondChains ==
  (unit = "tags" /\ init.built /\ Acyclic(processedTags)) =>
    /\ init.cycleWarnings = 0
    /\ \A t \in DOMAIN processedTags :
         /\ NoDuplicates(processedTags[t].prerequisiteChain)
         /\ Range(processedTags[t].prerequisiteChain) = TransitivePrerequisites(processedTags, t)

\* C11 witness: tag 1 requires 2 and 3, both require 4, and 4 requires 5; the chain of 1
\* has been computed and holds 4 and 5.
C11_Witness ==
  /\ unit = "tags" /\ init.at = "done"
  /\ Len(processedTags) = DagTags
  /\ processedTags[1].prerequisites = <<2, 3>>
  /\ processedTags[2].prerequisites = <<4>>
  /\ processedTags[3].prerequisites = <<4>>
  /\ processedTags[4].prerequisites = <<5>>
  /\ {4, 5} \subseteq Range(processedTags[1].prerequisiteChain)

\* ---- page corpora ----

CorpusTags == 2    \* defined tags 1..CorpusTags; CorpusTags + 1 is defined nowhere
NumPages == 2
MaxPageTags == 2   \* longest tags list of a page

\* the tag IDs a page may name: defined ones, an undefined one, and the inherited name
PageTagIds == 0..(CorpusTags + 1)

\* the tags lists a page may carry: any IDs, repeated or not
PageTagLists == UNION {[1..n -> PageTagIds] : n \in 0..MaxPageTags}

\* the n-th page of a corpus: its id, and a slug that is the id (an Astro 5 loader) or the
\* id without its extension (a legacy collection)
PageId(n) == IF n = 1 THEN "p1.md" ELSE IF n = 2 THEN "p2.md" ELSE "p3.md"
PageSlug(n) == IF n = 1 THEN "p1" ELSE IF n = 2 THEN "p2" ELSE "p3"

Corpora ==
  {[n \in 1..NumPages |-> [id |-> IF legacy[n] THEN PageId(n) ELSE PageSlug(n),
                           slug |-> PageSlug(n), tags |-> tags[n]]] :
     legacy \in [1..NumPages -> BOOLEAN], tags \in [1..NumPages -> PageTagLists]}

CorpusInit ==
  \E entries \in Corpora, policy \in {"ignore", "warn", "error"},
     file \in {"valid", "absent", "invalid"} :
    Constructed(file, [t \in 1..CorpusTags |-> Definition("a", 0, <<>>)], entries, policy)

CorpusNext ==
  \/ InitializeNext
  \/ getTags
  \/ \E pageSlug \in PageSlugs : getTagsForPage(pageSlug)
  \/ Resume

SpecCorpus == CorpusInit /\ [][CorpusNext]_vars

\* the pages of the corpus whose tags list names tagId
PagesReferencing(tagId) ==
  {n \in 1..Len(docsEntries) : Includes(docsEntries[n].tags, tagId)}

\* C12 (as claimed): after initialize() every defined tag has an entry in the processed
\* map whose count is the number of pages of the corpus that reference the tag, with no
\* pages and count 0 for a tag that no page references.
C12_CountIsPagesReferencing ==
  (unit = "tags" /\ init.at = "done") =>
    /\ DOMAIN processedTags = DOMAIN tagsData.tags
    /\ \A t \in DOMAIN processedTags :
         /\ processedTags[t].count = Cardinality(PagesReferencing(t))
         /\ PagesReferencing(t) = {} => processedTags[t].pages = <<>>

\* the IDs of a list of processed tags
IdsOf(tags) == {tags[i].id : i \in 1..Len(tags)}

\* C13 (as claimed): the cross-reference index round-trips. When getTagsForPage(p.slug)
\* has returned for a page p of the corpus, it holds every defined tag that p.tags names,
\* and every tag it holds has p in its pages list.
C13_PageRoundTrip ==
  (unit = "tags" /\ answer.fn = "getTagsForPage" /\ answer.at = "done") =>
    \A n \in 1..Len(docsEntries) :
      docsEntries[n].slug = answer.pageSlug =>
        /\ \A i \in 1..Len(docsEntries[n].tags) :
             docsEntries[n].tags[i] \in DOMAIN tagsData.tags
               => docsEntries[n].tags[i] \in IdsOf(answer.tags)
        /\ \A k \in 1..Len(answer.tags) :
             \E i \in 1..Len(answer.tags[k].pages) :
               answer.tags[k].pages[i].id = docsEntries[n].id

\* some page names a tag ID that the definition table lacks
UndefinedReferenced ==
  \E n \in 1..Len(docsEntries) : \E i \in 1..Len(docsEntries[n].tags) :
    docsEntries[n].tags[i] \notin DOMAIN tagsData.tags

\* C19 (as claimed): with a readable definition table, when some page names an undefined
\* tag, initialize() completes under 'ignore' and 'warn' with exactly the defined tags in
\* the map (one warning under 'warn', none under 'ignore') and throws under 'error'; when
\* no page names an undefined tag, initialize() does not throw under any policy.
C19_InlineTagPolicy ==
  (unit = "tags" /\ configFile = "valid" /\ init.at \in {"done", "threw"}) =>
    IF UndefinedReferenced
    THEN CASE onInlineTagsNotFound = "error" -> init.at = "threw"
           [] onInlineTagsNotFound = "warn" ->
                /\ init.at = "done" /\ init.inlineWarnings = 1
                /\ DOMAIN processedTags = DOMAIN tagsData.tags
           [] onInlineTagsNotFound = "ignore" ->
                /\ init.at = "done" /\ init.inlineWarnings = 0
                /\ DOMAIN processedTags = DOMAIN tagsData.tags
    ELSE init.at = "done" /\ init.inlineWarnings = 0

\* C20 (as claimed): initialize() succeeds with an empty tag set when the definition file
\* is absent, and throws when the file exists but is structurally invalid.
C20_AbsentFileIsEmpty ==
  (unit = "tags" /\ init.at \in {"done", "threw"}) =>
    /\ configFile = "absent" =>
         /\ init.at = "done"
         /\ Len(getTagsValues) = 0
    /\ configFile = "invalid" => init.at = "threw"

\* ---- sorted tags ----

SortTags == 3
MaxPriority == 1
Labels == {"a", "b", "B"}

\* the list of the elements of a set of integers, ascending
RECURSIVE Ascending(_)
Ascending(S) ==
  IF S = {} THEN <<>>
  ELSE LET m == CHOOSE x \in S : \A y \in S : x <= y IN <<m>> \o Ascending(S \ {m})

\* tables whose tags take any priority and label, over one page that names any of them
SortedInit ==
  \E label \in [1..SortTags -> Labels], priority \in [1..SortTags -> 0..MaxPriority],
     named \in SUBSET (1..SortTags) :
    Constructed("valid", [t \in 1..SortTags |-> Definition(label[t], priority[t], <<>>)],
                <<[id |-> "p1", slug |-> "p1", tags |-> Ascending(named)]>>, "warn")

SortedNext ==
  \/ InitializeNext
  \/ getAllTagsSorted
  \/ Resume

SpecSorted == SortedInit /\ [][SortedNext]_vars

\* s holds every element of t exactly once and nothing else (the elements of t are distinct)
Permutation(s, t) == Len(s) = Len(t) /\ Range(s) = Range(t) /\ NoDuplicates(s)

\* getAllTagsSorted() has returned after a successful initialize()
SortedReturned == unit = "tags" /\ answer.fn = "getAllTagsSorted" /\ answer.at = "done"

PathTags == 4

\* the subsets of ids of at most MaxPrereqs elements, each as an ascending list
SetsOver(ids) == {Ascending(S) : S \in {T \in SUBSET ids : Cardinality(T) <= MaxPrereqs}}

\* every prerequisite graph over PathTags defined tags, cycles and self-loops included
PathInit ==
  \E pre \in [1..PathTags -> SetsOver(1..PathTags)] :
    Constructed("valid", [t \in 1..PathTags |-> Definition("a", 0, pre[t])], <<>>, "warn")

PathNext ==
  \/ InitializeNext
  \/ \E startTagId, endTagId \in QueryIds : getLearningPath(startTagId, endTagId)
  \/ \E startTagId \in QueryIds : getLearningPath_nextSteps(startTagId)
  \/ Resume

SpecPaths == PathInit /\ [][PathNext]_vars

\* the tags at most k nextSteps edges away from the tags of S
RECURSIVE Within(_, _)
Within(S, k) ==
  IF k = 0 THEN S
  ELSE LET near == Within(S, k - 1)
       IN near \cup UNION {Range(processedTags[t].nextSteps) : t \in near}

\* the fewest nextSteps edges from start to end, or -1 when end is unreachable from start
Distance(start, end) ==
  LET n == Len(processedTags)
  IN IF end \notin Within({start}, n) THEN -1
     ELSE CHOOSE k \in 0..n : end \in Within({start}, k) /\ (k = 0 \/ end \notin Within({start}, k - 1))

getLearningPathReturned == unit = "tags" /\ answer.fn = "getLearningPath" /\ answer.at = "done"

\* C15: getLearningPath(start, end) returns the empty list exactly when start or end is
\* not a defined tag or end is unreachable from start over nextSteps; otherwise it returns
\* a path from start to end whose consecutive pairs (x, y) have y in nextSteps(x) and
\* whose number of edges is the fewest of any such path.
C15_ShortestLearningPath ==
  getLearningPathReturned =>
    LET path == answer.path
        defined == answer.start \in DOMAIN processedTags /\ answer.end \in DOMAIN processedTags
    IN IF ~defined \/ Distance(answer.start, answer.end) = -1
       THEN path = <<>>
       ELSE /\ path # <<>>
            /\ path[1] = answer.start
            /\ path[Len(path)] = answer.end
            /\ \A i \in 1..(Len(path) - 1) : Includes(processedTags[path[i]].nextSteps, path[i + 1])
            /\ Len(path) - 1 = Distance(answer.start, answer.end)

\* C15 witness: tag 4 is reached from tag 1 in two edges through tag 3 although a path
\* of three edges through tags 2 and 3 exists, and the two-edge path was returned.
C15_Witness ==
  /\ getLearningPathReturned
  /\ answer.start = 1 /\ answer.end = 4
  /\ answer.path = <<1, 3, 4>>
  /\ processedTags[1].nextSteps = <<2, 3>>
  /\ Includes(processedTags[2].nextSteps, 3)

\* ---- related tags ----

RelatedTagCount == 7   \* more than MAX_RELATED_TAGS candidates for tag 1

\* tables and corpora around tag 1: any of the other tags share page p1 with it, tags 2
\* and 3 may share page p2 as well, any of tags 2 to 5 require it, it may require tag 2,
\* and page p1 may name tag 2 twice
RelatedInit ==
  \E onP1 \in SUBSET (2..RelatedTagCount), onP2 \in SUBSET {2, 3},
     requiring \in SUBSET (2..5), requires2 \in BOOLEAN, twice \in BOOLEAN :
    Constructed("valid",
      [t \in 1..RelatedTagCount |->
         Definition("a", 0, IF t = 1 THEN (IF requires2 THEN <<2>> ELSE <<>>)
                            ELSE IF t \in requiring THEN <<1>> ELSE <<>>)],
      <<[id |-> "p1", slug |-> "p1",
         tags |-> <<1>> \o Ascending(onP1) \o (IF twice THEN <<2>> ELSE <<>>)],
        [id |-> "p2", slug |-> "p2", tags |-> <<1>> \o Ascending(onP2)]>>,
      "ignore")

SpecRelated == RelatedInit /\ [][InitializeNext]_vars

\* the score the relationship of two tags is given: 2 for every page both are on, 3 when
\* o is a prerequisite of t, 3 when t is a prerequisite of o
Score(t, o) ==
  2 * Cardinality(PagesReferencing(t) \cap PagesReferencing(o))
    + (IF Includes(processedTags[t].prerequisites, o) THEN 3 ELSE 0)
    + (IF Includes(processedTags[o].prerequisites, t) THEN 3 ELSE 0)

\* C16 (as claimed): relatedTags(t) never holds t, has at most 5 entries, holds only tags
\* of score greater than 0, lists them in non-increasing score order, and omits no tag
\* whose score is strictly greater than the score of a listed tag.
C16_RelatedTagsRanked ==
  (unit = "tags" /\ init.built) =>
    \A t \in DOMAIN processedTags :
      LET related == processedTags[t].relatedTags
      IN /\ ~Includes(related, t)
         /\ Len(related) <= 5
         /\ \A i \in 1..Len(related) : Score(t, related[i]) > 0
         /\ \A i \in 1..(Len(related) - 1) : Score(t, related[i]) >= Score(t, related[i + 1])
         /\ \A o \in DOMAIN processedTags \ ({t} \cup Range(related)) :
              \A i \in 1..Len(related) : Score(t, o) <= Score(t, related[i])

\* ---------------------------------------------------------------------------------------
\* next steps: tables in which more than MAX_NEXT_STEPS tags require one tag

StepTags == 7   \* one tag and more than MAX_NEXT_STEPS tags to require it

\* every tag requires nothing, tag 1, tag 2 or both, itself included
StepInit ==
  \E pre \in [1..StepTags -> {<<>>, <<1>>, <<2>>, <<1, 2>>}] :
    Constructed("valid", [t \in 1..StepTags |-> Definition("a", 0, pre[t])], <<>>, "ignore")

SpecSteps == StepInit /\ [][InitializeNext]_vars

\* the tags other than t whose prerequisites list names t
Dependents(t) ==
  {o \in DOMAIN processedTags \ {t} : t \in Range(processedTags[o].prerequisites)}

\* C17: for every tag t, nextSteps(t) is the first 5, in map order, of the tags other than
\* t whose prerequisites list contains t: every entry is such a tag, the entries are in map
\* order without repetition, no such tag left out precedes a listed one, and when at most 5
\* tags require t all of them are listed.
C17_NextStepsFirstFive ==
  (unit = "tags" /\ init.built) =>
    \A t \in DOMAIN processedTags :
      LET following == processedTags[t].nextSteps
      IN /\ Len(following) = IF Cardinality(Dependents(t)) > 5 THEN 5
                             ELSE Cardinality(Dependents(t))
         /\ \A i \in 1..Len(following) : following[i] \in Dependents(t)
         /\ \A i \in 1..(Len(following) - 1) : following[i] < following[i + 1]
         /\ \A o \in Dependents(t) \ Range(following) :
              \A i \in 1..Len(following) : following[i] < o

\* a tag that requires itself and is required by six others has its first five as next steps
C17_Witness ==
  /\ unit = "tags" /\ init.built
  /\ Includes(processedTags[1].prerequisites, 1)
  /\ Cardinality(Dependents(1)) = 6
  /\ processedTags[1].nextSteps = <<2, 3, 4, 5, 6>>

\* ---------------------------------------------------------------------------------------
\* prerequisite validation: tables whose prerequisites lists name IDs that are not defined

PrereqTags == 2   \* the defined tags; PrereqTags + 1 is an ID the table does not define

\* every tag lists any IDs, defined or not and possibly repeated, as prerequisites; the one
\* page names nothing, a defined tag or an undefined one, under every policy
PrereqInit ==
  \E pre \in [1..PrereqTags -> ListsOver(0..(PrereqTags + 1))],
     pageTags \in {<<>>, <<1>>, <<PrereqTags + 1>>},
     policy \in {"ignore", "warn", "error"} :
    Constructed("valid", [t \in 1..PrereqTags |-> Definition("a", 0, pre[t])],
                <<[id |-> "p1", slug |-> "p1", tags |-> pageTags]>>, policy)

PrereqNext ==
  \/ InitializeNext
  \/ validatePrerequisites
  \/ Resume

SpecPrereqs == PrereqInit /\ [][PrereqNext]_vars

\* the (tagId, prereqId) pairs in which the definition of tagId lists prereqId as a
\* prerequisite and prereqId is not a key of the map
InvalidPairs ==
  {pair \in (DOMAIN processedTags) \X (0..(Len(processedTags) + 1)) :
     /\ Includes(tagsData.tags[pair[1]].prerequisites, pair[2])
     /\ pair[2] \notin DOMAIN processedTags}

\* the entries of errors that report the pair
ErrorsFor(pair) ==
  {i \in 1..Len(answer.errors) :
     answer.errors[i] = [tagId |-> pair[1], prereqId |-> pair[2]]}

\* C18: on a built tag map validatePrerequisites() returns errors holding, for every pair
\* (tagId, prereqId) in which prereqId is listed in the prerequisites of tagId and is not a
\* key of the map, one entry per occurrence of prereqId in that list, and nothing else;
\* isValid is true exactly when errors is empty; the result is fixed by the definition table
\* alone, whatever undefined tags the pages name and whatever the policy for them.
C18_OneErrorPerOccurrence ==
  (unit = "tags" /\ answer.fn = "validatePrerequisites" /\ init.built) =>
    /\ \A pair \in InvalidPairs :
         Cardinality(ErrorsFor(pair)) =
           Len(SelectSeq(tagsData.tags[pair[1]].prerequisites, LAMBDA q : q = pair[2]))
    /\ \A i \in 1..Len(answer.errors) :
         <<answer.errors[i].tagId, answer.errors[i].prereqId>> \in InvalidPairs
    /\ answer.isValid <=> (answer.errors = <<>>)

\* a page names an undefined tag under the warn policy, initialize() has resolved, and a
\* tag that lists one undefined prerequisite twice is reported twice
C18_Witness ==
  /\ unit = "tags" /\ answer.fn = "validatePrerequisites" /\ init.at = "done"
  /\ onInlineTagsNotFound = "warn" /\ init.inlineWarnings = 1
  /\ tagsData.tags[1].prerequisites = <<PrereqTags + 1, PrereqTags + 1>>
  /\ tagsData.tags[2].prerequisites = <<1>>
  /\ Len(answer.errors) = 2
  /\ ~answer.isValid

\* C18 (as claimed): on a built tag map validatePrerequisites() returns errors holding
\* exactly one entry for every pair (tagId, prereqId) in which prereqId is listed in the
\* prerequisites of tagId and is not a key of the map, and nothing else; isValid is true
\* exactly when errors is empty; the result is fixed by the definition table alone, whatever
\* undefined tags the pages name.
C18_OneErrorPerInvalidPair ==
  (unit = "tags" /\ answer.fn = "validatePrerequisites" /\ init.built) =>
    /\ \A pair \in InvalidPairs : Cardinality(ErrorsFor(pair)) = 1
    /\ \A i \in 1..Len(answer.errors) :
         <<answer.errors[i].tagId, answer.errors[i].prereqId>> \in InvalidPairs
    /\ answer.isValid <=> (answer.errors = <<>>)

\* ---------------------------------------------------------------------------------------
\* the utility functions: a call draws its arguments and leaves them, with what the
\* function returned, in answer

UtilsIdle == unit = "utils" /\ StoreIdle /\ ChainIdle /\ TagsIdle

\* a call of a utility function returns: answer holds its arguments and its result
Returns(result) ==
  /\ unit = "utils"
  /\ answer = NoAnswer
  /\ answer' = result
  /\ UNCHANGED <<storeVars, chainVars, configFile, tagsData, docsEntries, onInlineTagsNotFound,
                 processedTags, init>>

\* ---- resolveLocalizedString ----

undefined == "<undefined>"

\* a JavaScript string is truthy unless it is empty
Truthy(s) == s # undefined /\ s # ""

\* the locale keys of a record and the values it gives them: a key maps to the empty
\* string or to a text of its own
LocaleKeys == {"fr", "de", "en"}
TextOf(key) == [fr |-> "Bonjour", de |-> "Hallo", en |-> "Hello"][key]

\* record[key] of a locale record, held as its entries in insertion order
Lookup(record, key) ==
  IF \E i \in 1..Len(record) : record[i].key = key
  THEN record[CHOOSE i \in 1..Len(record) : record[i].key = key].value
  ELSE undefined

\* Object.values(record): the keys are locale tags, none an array index, so the values
\* come in insertion order
ObjectValues(record) == [i \in 1..Len(record) |-> record[i].value]

\* resolveLocalizedString without its third step, the 'en' fallback
resolveLocalizedString_noUniversal(value, locale, defaultLocale) ==
  IF value.type = "undefined" THEN undefined
  ELSE IF value.type = "string" THEN value.string
  ELSE LET record == value.entries
       IN IF Truthy(locale) /\ Truthy(Lookup(record, locale)) THEN Lookup(record, locale)
          ELSE IF Truthy(defaultLocale) /\ Truthy(Lookup(record, defaultLocale))
               THEN Lookup(record, defaultLocale)
          ELSE IF Len(ObjectValues(record)) > 0 THEN ObjectValues(record)[1]
          ELSE undefined

\* resolveLocalizedString(value, locale, defaultLocale)
resolveLocalizedString(value, locale, defaultLocale) ==
  IF value.type = "undefined" THEN undefined
  ELSE IF value.type = "string" THEN value.string
  ELSE LET record == value.entries
       IN IF Truthy(locale) /\ Truthy(Lookup(record, locale)) THEN Lookup(record, locale)
          ELSE IF Truthy(defaultLocale) /\ Truthy(Lookup(record, defaultLocale))
               THEN Lookup(record, defaultLocale)
          ELSE IF Truthy(Lookup(record, "en")) THEN Lookup(record, "en")
          ELSE IF Len(ObjectValues(record)) > 0 THEN ObjectValues(record)[1]
          ELSE undefined

\* the locale records: up to three distinct keys in any insertion order, each with its
\* text or with the empty string
LocaleRecords ==
  {r \in UNION {[1..n -> [key : LocaleKeys, value : {"", "Bonjour", "Hallo", "Hello"}]] :
                  n \in 0..Cardinality(LocaleKeys)} :
     /\ \A i, j \in 1..Len(r) : i # j => r[i].key # r[j].key
     /\ \A i \in 1..Len(r) : r[i].value \in {"", TextOf(r[i].key)}}

LocalizableValues ==
  {[type |-> "undefined"]}
    \cup {[type |-> "string", string |-> s] : s \in {"", "Hello"}}
    \cup {[type |-> "object", entries |-> r] : r \in LocaleRecords}

\* the locale arguments: none, the empty string, a key the records may have, one they lack
LocaleArguments == {undefined, "", "es"} \cup LocaleKeys

Call_resolveLocalizedString ==
  /\ answer = NoAnswer
  /\ \E value \in LocalizableValues, locale \in LocaleArguments, defaultLocale \in LocaleArguments :
      Returns([fn |-> "resolveLocalizedString", value |-> value, locale |-> locale,
               defaultLocale |-> defaultLocale,
               result |-> resolveLocalizedString(value, locale, defaultLocale)])

SpecLocalized == UtilsIdle /\ [][Call_resolveLocalizedString]_vars

\* the entries the resolution chain tries, in its order: the entry for locale, the entry
\* for defaultLocale, the entry for 'en', the first value of the map
ResolutionChain(record, locale, defaultLocale) ==
  <<Lookup(record, locale), Lookup(record, defaultLocale), Lookup(record, "en"),
    IF Len(record) > 0 THEN record[1].value ELSE undefined>>

getTagLabel(lang, defaultLang, labelObject) ==
  IF labelObject.type = "string" THEN [threw |-> FALSE, label |-> labelObject.string]
  ELSE LET record == labelObject.entries
           found == IF Truthy(Lookup(record, lang)) THEN Lookup(record, lang)
                    ELSE IF Truthy(defaultLang)
                         THEN (IF Lookup(record, defaultLang) = undefined THEN ""
                               ELSE Lookup(record, defaultLang))
                         ELSE ""
       IN IF Len(found) = 0 THEN [threw |-> TRUE, label |-> undefined]
          ELSE [threw |-> FALSE, label |-> found]

Call_getTagLabel ==
  /\ answer = NoAnswer
  /\ \E labelObject \in LocalizableValues \ {[type |-> "undefined"]},
       lang \in {"es"} \cup LocaleKeys, defaultLang \in {undefined, "es"} \cup LocaleKeys :
      Returns([fn |-> "getTagLabel", lang |-> lang, defaultLang |-> defaultLang,
               labelObject |-> labelObject,
               result |-> getTagLabel(lang, defaultLang, labelObject)])

SpecLabel == UtilsIdle /\ [][Call_getTagLabel]_vars

\* C22 (as claimed): getTagLabel throws exactly when no value resolves through the chain
\* (the entry for the locale, the entry for the default locale, the entry for 'en', the
\* first value of the map); a plain string is returned as it is, and a map from which the
\* chain resolves a value yields that value, which is not empty, and no error.
C22_LabelThrowsIffUnresolved ==
  (unit = "utils" /\ answer.fn = "getTagLabel") =>
    IF answer.labelObject.type = "string"
    THEN answer.result = [threw |-> FALSE, label |-> answer.labelObject.string]
    ELSE LET chain == ResolutionChain(answer.labelObject.entries, answer.lang, answer.defaultLang)
             available == {i \in 1..4 : Truthy(chain[i])}
         IN IF available = {}
            THEN answer.result.threw
            ELSE answer.result =
                   [threw |-> FALSE,
                    label |-> chain[CHOOSE i \in available : \A j \in available : i <= j]]

\* ---- levenshteinDistance ----

MaxLen == 3   \* longest string (in UTF-16 code units) handed to the string utilities

\* the code units the strings are made of: two letters and the upper-case form of one
Alphabet == {"a", "b", "A"}
Strings == UNION {[1..n -> Alphabet] : n \in 0..MaxLen}

Min2(x, y) == IF x <= y THEN x ELSE y

\* a variant for the check of C24: the matrix filled without the substitution case
RECURSIVE matrix_noSubstitution(_, _, _, _)
matrix_noSubstitution(a, b, i, j) ==
  IF i = 0 THEN j
  ELSE IF j = 0 THEN i
  ELSE IF b[i] = a[j] THEN matrix_noSubstitution(a, b, i - 1, j - 1)
  ELSE Min2(matrix_noSubstitution(a, b, i, j - 1) + 1, matrix_noSubstitution(a, b, i - 1, j) + 1)

\* levenshteinDistance: matrix[i][j] as the loops fill it, row i for the first i code units
\* of b and column j for the first j code units of a
RECURSIVE matrix(_, _, _, _)
matrix(a, b, i, j) ==
  IF i = 0 THEN j
  ELSE IF j = 0 THEN i
  ELSE IF b[i] = a[j] THEN matrix(a, b, i - 1, j - 1)
  ELSE Min2(matrix(a, b, i - 1, j - 1) + 1,
            Min2(matrix(a, b, i, j - 1) + 1, matrix(a, b, i - 1, j) + 1))

\* levenshteinDistance(a, b)
levenshteinDistance(a, b) ==
  IF Len(a) = 0 THEN Len(b)
  ELSE IF Len(b) = 0 THEN Len(a)
  ELSE matrix(a, b, Len(b), Len(a))

Call_levenshteinDistance ==
  /\ answer = NoAnswer
  /\ \E a \in Strings, b \in Strings :
      Returns([fn |-> "levenshteinDistance", a |-> a, b |-> b,
               result |-> levenshteinDistance(a, b)])

SpecDistance == UtilsIdle /\ [][Call_levenshteinDistance]_vars

\* the strings one insertion, deletion or substitution of a single code unit away from s,
\* none longer than n
Edits(s, n) ==
  {SubSeq(s, 1, k - 1) \o SubSeq(s, k + 1, Len(s)) : k \in 1..Len(s)}
    \cup {[s EXCEPT ![k] = c] : k \in 1..Len(s), c \in Alphabet}
    \cup (IF Len(s) < n
          THEN {SubSeq(s, 1, k) \o <<c>> \o SubSeq(s, k + 1, Len(s)) :
                  k \in 0..Len(s), c \in Alphabet}
          ELSE {})

\* the least number of edits that turn a string of S into b, counted from k; an edit script
\* of least length never needs a string longer than the longer of its two ends
RECURSIVE EditsFrom(_, _, _, _)
EditsFrom(S, b, n, k) ==
  IF b \in S THEN k ELSE EditsFrom(S \cup UNION {Edits(s, n) : s \in S}, b, n, k + 1)

EditDistance(a, b) == EditsFrom({a}, b, IF Len(a) > Len(b) THEN Len(a) ELSE Len(b), 0)

\* C24: levenshteinDistance(a, b) is the least number of single-character insertions,
\* deletions and substitutions that turn a into b; it is 0 exactly when a = b, the length of
\* the other string when one is empty, the same with its arguments exchanged, and letters
\* that differ only in case count as different.
C24_EditDistance ==
  (unit = "utils" /\ answer.fn = "levenshteinDistance") =>
    /\ answer.result = EditDistance(answer.a, answer.b)
    /\ answer.result = 0 <=> answer.a = answer.b
    /\ answer.a = <<>> => answer.result = Len(answer.b)
    /\ answer.b = <<>> => answer.result = Len(answer.a)
    /\ answer.result = levenshteinDistance(answer.b, answer.a)
    /\ (answer.a = <<"A">> /\ answer.b = <<"a">>) => answer.result = 1

\* a distance made of a substitution of case and an insertion
C24_Witness ==
  /\ unit = "utils" /\ answer.fn = "levenshteinDistance"
  /\ answer.a = <<"a", "b">> /\ answer.b = <<"A", "b", "a">>
  /\ answer.result = 2

\* ---- findSimilarStrings ----

MaxCandidates == 3   \* longest candidates list

\* String.prototype.toLowerCase over the alphabet
toLowerCase(s) == [i \in 1..Len(s) |-> IF s[i] = "A" THEN "a" ELSE s[i]]

\* similar.sort((a, b) => a.distance - b.distance)
ByDistance(similar) ==
  StableSort(similar, [i \in 1..Len(similar) |->
                         [j \in 1..Len(similar) |->
                            similar[i].distance - similar[j].distance < 0]])

\* a variant for the check of C23: the distance taken on the strings as they are written
findSimilarStrings_caseSensitive(name, candidates, tenths) ==
  LET floor == (Len(name) * tenths) \div 10
      maxDistance == IF floor > 2 THEN floor ELSE 2
      scored == [k \in 1..Len(candidates) |->
                   [name |-> candidates[k],
                    distance |-> levenshteinDistance(name, candidates[k])]]
      similar == SelectSeq(scored, LAMBDA r : r.name # name /\ r.distance <= maxDistance)
  IN ByDistance(similar)

\* findSimilarStrings(name, candidates, maxDistanceRatio), the ratio given in tenths
findSimilarStrings(name, candidates, tenths) ==
  LET floor == (Len(name) * tenths) \div 10
      maxDistance == IF floor > 2 THEN floor ELSE 2
      scored == [k \in 1..Len(candidates) |->
                   [name |-> candidates[k],
                    distance |-> levenshteinDistance(toLowerCase(name),
                                                     toLowerCase(candidates[k]))]]
      similar == SelectSeq(scored, LAMBDA r : r.name # name /\ r.distance <= maxDistance)
  IN ByDistance(similar)

\* the strings the candidates are drawn from: near and far ones, and pairs that differ in
\* case only
CandidatePool == {<<>>, <<"a", "b">>, <<"A", "b">>, <<"b", "b", "b">>, <<"a", "a", "b">>}

\* the ratios, in tenths: 0, the default 0.4, and 1
Ratios == {0, 4, 10}

Call_findSimilarStrings ==
  /\ answer = NoAnswer
  /\ \E name \in Strings, tenths \in Ratios,
       candidates \in UNION {[1..n -> CandidatePool] : n \in 0..MaxCandidates} :
      Returns([fn |-> "findSimilarStrings", name |-> name, candidates |-> candidates,
               tenths |-> tenths, result |-> findSimilarStrings(name, candidates, tenths)])

SpecSimilar == UtilsIdle /\ [][Call_findSimilarStrings]_vars

\* the largest distance findSimilarStrings lets through: max(2, floor(length x ratio))
Threshold(name, tenths) ==
  LET scaled == Len(name) * tenths
      floor == CHOOSE f \in 0..scaled : 10 * f <= scaled /\ scaled < 10 * (f + 1)
  IN IF floor > 2 THEN floor ELSE 2

\* C23: findSimilarStrings returns exactly the candidates other than name whose edit
\* distance to name, taken on the lower-cased strings, is at most
\* max(2, floor(length(name) x ratio)), each as often as the list holds it and paired with
\* that distance, in non-decreasing order of distance; no candidates, no result. (The edit
\* distance is taken as levenshteinDistance, which C24 shows to be the same.)
C23_SimilarWithinThreshold ==
  (unit = "utils" /\ answer.fn = "findSimilarStrings") =>
    LET similar == answer.result
        lowered(s) == levenshteinDistance(toLowerCase(answer.name), toLowerCase(s))
        within(c) == c # answer.name /\ lowered(c) <= Threshold(answer.name, answer.tenths)
    IN /\ \A c \in CandidatePool :
            Cardinality({i \in 1..Len(similar) : similar[i].name = c}) =
              IF within(c)
              THEN Cardinality({k \in 1..Len(answer.candidates) : answer.candidates[k] = c})
              ELSE 0
       /\ \A i \in 1..Len(similar) :
            /\ similar[i].name \in CandidatePool
            /\ similar[i].distance = lowered(similar[i].name)
       /\ \A i \in 1..(Len(similar) - 1) : similar[i].distance <= similar[i + 1].distance
       /\ answer.candidates = <<>> => similar = <<>>

\* a farther candidate listed first comes second, a candidate equal to the name up to case
\* comes with distance 0, the name itself and a candidate beyond the threshold are left out
C23_Witness ==
  /\ unit = "utils" /\ answer.fn = "findSimilarStrings"
  /\ answer.name = <<"a", "b">>
  /\ answer.candidates = <<<<"a", "a", "b">>, <<"A", "b">>, <<"a", "b">>>>
  /\ answer.result = <<[name |-> <<"A", "b">>, distance |-> 0],
                       [name |-> <<"a", "a", "b">>, distance |-> 1]>>

\* ---- validateTagConfiguration ----

\* validateTagId(tagId): /^[a-zA-Z0-9_-]+$/ over a tag ID held as its characters
validateTagId(tagId) ==
  Len(tagId) > 0 /\ \A i \in 1..Len(tagId) : tagId[i] \in {"a", "Z", "0", "_", "-"}

\* /^#([0-9A-Fa-f]{3}|[0-9A-Fa-f]{6})$/ over a color held as its characters
HexColor(color) ==
  /\ Len(color) \in {4, 7}
  /\ color[1] = "#"
  /\ \A i \in 2..Len(color) : color[i] \in {"0", "9", "a", "f", "A", "F"}

\* validateTagConfiguration(tagsConfig), the loop from the k-th entry of
\* Object.entries(tagsConfig.tags) on: the errors pushed, as {rule, tagId}
RECURSIVE DefinitionErrors(_, _)
DefinitionErrors(entries, k) ==
  IF k > Len(entries) THEN <<>>
  ELSE LET tagId == entries[k].tagId
           tagDef == entries[k].tagDef
           id == IF validateTagId(tagId) THEN <<>> ELSE <<[rule |-> "id", tagId |-> tagId]>>
           rest == DefinitionErrors(entries, k + 1)
       IN IF tagDef.type # "object"
          THEN id \o <<[rule |-> "object", tagId |-> tagId]>> \o rest
          ELSE id
                 \o (IF tagDef.label.type = "string" /\ tagDef.label.string # "" THEN <<>>
                     ELSE <<[rule |-> "label", tagId |-> tagId]>>)
                 \o (IF tagDef.color.type = "string" /\ tagDef.color.string # <<>>
                        /\ ~HexColor(tagDef.color.string)
                     THEN <<[rule |-> "color", tagId |-> tagId]>> ELSE <<>>)
                 \o rest

\* validateTagConfiguration(tagsConfig): reading tagsConfig.tags of null or undefined is a
\* TypeError; of a number it is undefined
validateTagConfiguration(tagsConfig) ==
  IF tagsConfig.type \in {"null", "undefined"} THEN [threw |-> TRUE, errors |-> <<>>]
  ELSE IF tagsConfig.type # "object" \/ tagsConfig.tags.type # "object"
  THEN [threw |-> FALSE, errors |-> <<[rule |-> "tags", tagId |-> <<>>]>>]
  ELSE [threw |-> FALSE, errors |-> DefinitionErrors(tagsConfig.tags.entries, 1)]

\* the tag definitions: null, a string, or an object whose label is absent, a number, empty
\* or a text and whose color is absent, empty, a hex color of 3 or 6 digits, or neither
TagDefinitionValues ==
  {[type |-> "null"], [type |-> "string"]}
    \cup [type : {"object"},
          label : {[type |-> "undefined"], [type |-> "number"],
                   [type |-> "string", string |-> ""], [type |-> "string", string |-> "A"]},
          color : {[type |-> "undefined"]}
                    \cup [type : {"string"},
                          string : {<<>>, <<"#", "f", "0", "0">>, <<"f", "0", "0">>,
                                    <<"#", "F", "F", "0", "0", "a", "9">>,
                                    <<"#", "f", "0", "0", "0">>}]]

\* the tables of at most two tags, with a valid ID first or second and an invalid one
TagTables ==
  {<<>>}
    \cup {<<[tagId |-> id, tagDef |-> d]>> : id \in {<<"a">>, <<"a", " ">>}, d \in TagDefinitionValues}
    \cup {<<[tagId |-> ids[1], tagDef |-> d1], [tagId |-> ids[2], tagDef |-> d2]>> :
            ids \in {<<<<"a">>, <<"a", " ">>>>, <<<<"Z", "-">>, <<"0", "_">>>>},
            d1 \in TagDefinitionValues, d2 \in TagDefinitionValues}

\* the arguments: null, undefined, a number, an object without tags, with tags that are
\* null or a string, and with a table of tags
TagsConfigValues ==
  {[type |-> "null"], [type |-> "undefined"], [type |-> "number"]}
    \cup {[type |-> "object", tags |-> [type |-> t]] : t \in {"undefined", "null", "string"}}
    \cup {[type |-> "object", tags |-> [type |-> "object", entries |-> e]] : e \in TagTables}

Call_validateTagConfiguration ==
  /\ answer = NoAnswer
  /\ \E tagsConfig \in TagsConfigValues :
      Returns([fn |-> "validateTagConfiguration", tagsConfig |-> tagsConfig,
               result |-> validateTagConfiguration(tagsConfig)])

SpecValidation == UtilsIdle /\ [][Call_validateTagConfiguration]_vars

\* the errors of the list that report the rule for the tag
Reported(errors, rule, tagId) ==
  Cardinality({i \in 1..Len(errors) : errors[i] = [rule |-> rule, tagId |-> tagId]})

\* for a config with a tags object, the list holds one error for every violated rule of
\* every tag and no other: an invalid ID, a definition that is not an object, a label that
\* is not a non-empty string, a color that is given and is not a hex color
OneErrorPerViolation(tagsConfig, errors) ==
  (tagsConfig.type = "object" /\ tagsConfig.tags.type = "object") =>
    LET entries == tagsConfig.tags.entries
    IN /\ \A k \in 1..Len(entries) :
            LET tagId == entries[k].tagId
                tagDef == entries[k].tagDef
                isObject == tagDef.type = "object"
            IN /\ Reported(errors, "id", tagId) = IF validateTagId(tagId) THEN 0 ELSE 1
               /\ Reported(errors, "object", tagId) = IF isObject THEN 0 ELSE 1
               /\ isObject =>
                    /\ Reported(errors, "label", tagId) =
                         IF tagDef.label.type = "string" /\ tagDef.label.string # ""
                         THEN 0 ELSE 1
                    /\ Reported(errors, "color", tagId) =
                         IF /\ tagDef.color.type = "string"
                            /\ tagDef.color.string # <<>>
                            /\ ~HexColor(tagDef.color.string)
                         THEN 1 ELSE 0
       /\ \A i \in 1..Len(errors) :
            \E k \in 1..Len(entries) : errors[i].tagId = entries[k].tagId

\* C25 (as claimed): validateTagConfiguration never throws, whatever it is given (null,
\* undefined, a non-object, a config without a tags object, definitions that are not
\* objects); it returns a list of errors, and for a config with a tags object the list holds
\* one error for every violated rule of every tag.
C25_NeverThrows ==
  (unit = "utils" /\ answer.fn = "validateTagConfiguration") =>
    /\ ~answer.result.threw
    /\ OneErrorPerViolation(answer.tagsConfig, answer.result.errors)

\* ---- getPageNumbers ----

MaxPages == 12   \* the largest totalPages handed to getPageNumbers

ellipsis == 0

Max2(x, y) == IF x >= y THEN x ELSE y

\* for (let i = from; i <= to; i++) pages.push(i)
PagesFromTo(from, to) == [k \in 1..Max2(0, to - from + 1) |-> from + k - 1]

\* getPageNumbers(currentPage, totalPages, maxVisible)
getPageNumbers(currentPage, totalPages, maxVisible) ==
  IF totalPages <= maxVisible THEN PagesFromTo(1, totalPages)
  ELSE LET sidePages == (maxVisible - 3) \div 2
           nearStart == currentPage <= sidePages + 2
           nearEnd == ~nearStart /\ currentPage >= totalPages - sidePages - 1
           rangeStart == IF nearEnd THEN Max2(2, totalPages - maxVisible + 3)
                         ELSE Max2(2, currentPage - sidePages)
           rangeEnd == IF nearStart THEN Min2(totalPages - 1, maxVisible - 2)
                       ELSE Min2(totalPages - 1, currentPage + sidePages)
       IN <<1>>
            \o (IF rangeStart > 2 THEN <<ellipsis>> ELSE <<>>)
            \o PagesFromTo(rangeStart, rangeEnd)
            \o (IF rangeEnd < totalPages - 1 THEN <<ellipsis>> ELSE <<>>)
            \o (IF totalPages > 1 THEN <<totalPages>> ELSE <<>>)

\* the numbers of visible entries asked for: the default 7 and its neighbours
VisibleCounts == 5..8

Call_getPageNumbers ==
  /\ answer = NoAnswer
  /\ \E totalPages \in 1..MaxPages, maxVisible \in VisibleCounts :
       \E currentPage \in 1..totalPages :
         Returns([fn |-> "getPageNumbers", currentPage |-> currentPage,
                  totalPages |-> totalPages, maxVisible |-> maxVisible,
                  result |-> getPageNumbers(currentPage, totalPages, maxVisible)])

SpecPageNumbers == UtilsIdle /\ [][Call_getPageNumbers]_vars

\* C26 (as claimed): for 1 <= currentPage <= totalPages and totalPages > maxVisible,
\* getPageNumbers returns at most maxVisible entries, page numbers and ellipsis markers
\* together, of which the first is 1, the last is totalPages and one is currentPage; the
\* documented getPageNumbers(5, 10) is [1, ellipsis, 4, 5, 6, ellipsis, 10].
C26_AtMostMaxVisible ==
  (unit = "utils" /\ answer.fn = "getPageNumbers" /\ answer.totalPages > answer.maxVisible) =>
    /\ Len(answer.result) <= answer.maxVisible
    /\ answer.result[1] = 1
    /\ answer.result[Len(answer.result)] = answer.totalPages
    /\ \E i \in 1..Len(answer.result) : answer.result[i] = answer.currentPage
    /\ (answer.currentPage = 5 /\ answer.totalPages = 10 /\ answer.maxVisible = 7) =>
         answer.result = <<1, ellipsis, 4, 5, 6, ellipsis, 10>>

\* ---- calculatePagination and paginateArray ----

MaxItems == 7     \* the largest totalItems
MaxPerPage == 4   \* the largest itemsPerPage

\* Math.ceil(x / y) for integers x >= 0 and y >= 1
CeilDiv(x, y) == (x + y - 1) \div y

\* a variant for the check of C30: currentPage taken as it is given
calculatePagination_unclamped(totalItems, currentPage, itemsPerPage) ==
  LET totalPages == Max2(1, CeilDiv(totalItems, itemsPerPage))
      startIndex == (currentPage - 1) * itemsPerPage
  IN [currentPage |-> currentPage, totalPages |-> totalPages, totalItems |-> totalItems,
      itemsPerPage |-> itemsPerPage, startIndex |-> startIndex,
      endIndex |-> Min2(startIndex + itemsPerPage, totalItems),
      hasPrev |-> currentPage > 1, hasNext |-> currentPage < totalPages]

\* calculatePagination(totalItems, currentPage, itemsPerPage)
calculatePagination(totalItems, currentPage, itemsPerPage) ==
  LET totalPages == Max2(1, CeilDiv(totalItems, itemsPerPage))
      safePage == Max2(1, Min2(currentPage, totalPages))
      startIndex == (safePage - 1) * itemsPerPage
  IN [currentPage |-> safePage, totalPages |-> totalPages, totalItems |-> totalItems,
      itemsPerPage |-> itemsPerPage, startIndex |-> startIndex,
      endIndex |-> Min2(startIndex + itemsPerPage, totalItems),
      hasPrev |-> safePage > 1, hasNext |-> safePage < totalPages]

\* Array.prototype.slice(start, end) for integer arguments
ArraySlice(items, start, end) ==
  LET from == IF start < 0 THEN Max2(0, Len(items) + start) ELSE Min2(start, Len(items))
      to == IF end < 0 THEN Max2(0, Len(items) + end) ELSE Min2(end, Len(items))
  IN SubSeq(items, from + 1, to)

\* paginateArray(items, pagination)
paginateArray(items, pagination) ==
  ArraySlice(items, pagination.startIndex, pagination.endIndex)

\* a call of calculatePagination followed by paginateArray over the items 1..totalItems
Call_calculatePagination ==
  /\ answer = NoAnswer
  /\ \E totalItems \in 0..MaxItems, itemsPerPage \in 1..MaxPerPage,
        currentPage \in (-1)..(MaxItems + 2) :
       LET pagination == calculatePagination(totalItems, currentPage, itemsPerPage)
       IN Returns([fn |-> "calculatePagination", totalItems |-> totalItems,
                   currentPage |-> currentPage, itemsPerPage |-> itemsPerPage,
                   result |-> pagination,
                   page |-> paginateArray([k \in 1..totalItems |-> k], pagination)])

SpecPagination == UtilsIdle /\ [][Call_calculatePagination]_vars

\* the slices of the items 1..totalItems for the pages from up to totalPages, one after
\* another
RECURSIVE SlicesFrom(_, _, _, _)
SlicesFrom(totalItems, itemsPerPage, from, totalPages) ==
  IF from > totalPages THEN <<>>
  ELSE paginateArray([k \in 1..totalItems |-> k],
                     calculatePagination(totalItems, from, itemsPerPage))
         \o SlicesFrom(totalItems, itemsPerPage, from + 1, totalPages)

\* C30: for totalItems >= 0, itemsPerPage >= 1 and any currentPage, calculatePagination
\* returns totalPages >= 1, 1 <= currentPage <= totalPages,
\* 0 <= startIndex <= endIndex <= totalItems, endIndex - startIndex <= itemsPerPage,
\* hasPrev exactly when currentPage > 1 and hasNext exactly when currentPage < totalPages;
\* the slices of paginateArray for the pages 1..totalPages, put one after another, are the
\* items in their order, every item once (and the slice of the call is its page's).
C30_PaginationBounds ==
  (unit = "utils" /\ answer.fn = "calculatePagination") =>
    LET p == answer.result
    IN /\ p.totalPages >= 1
       /\ 1 <= p.currentPage /\ p.currentPage <= p.totalPages
       /\ 0 <= p.startIndex /\ p.startIndex <= p.endIndex /\ p.endIndex <= answer.totalItems
       /\ p.endIndex - p.startIndex <= answer.itemsPerPage
       /\ p.hasPrev <=> p.currentPage > 1
       /\ p.hasNext <=> p.currentPage < p.totalPages
       /\ SlicesFrom(answer.totalItems, answer.itemsPerPage, 1, p.totalPages)
            = [k \in 1..answer.totalItems |-> k]
       /\ answer.page = [k \in 1..(p.endIndex - p.startIndex) |-> p.startIndex + k]

\* a page beyond the last one is answered with the last page, which is not full
C30_Witness ==
  /\ unit = "utils" /\ answer.fn = "calculatePagination"
  /\ answer.totalItems = 7 /\ answer.itemsPerPage = 3 /\ answer.currentPage = 9
  /\ answer.result.currentPage = 3 /\ answer.result.totalPages = 3
  /\ answer.result.startIndex = 6 /\ answer.result.endIndex = 7
  /\ answer.page = <<7>>

\* ==== the stores again ====

\* C27 (as claimed): in the tags store of part_012, once a processor is published by a
\* pass that completed successfully, isInitialized() stays true and the accessors keep
\* reading that processor until resetTagsStore is called: no other step, the completion or
\* failure of a pass started before a reset included, clears or replaces it.
C27_PublishedUntilReset ==
  [][(unit = "store" /\ cachedProcessor # NULL /\ resets' = resets)
       => cachedProcessor' = cachedProcessor]_vars

\* ==== the page index of getTagsData ====

\* buildTagsByPageMap(processor), the entry it leaves for pageSlug, from the t-th tag of
\* processor.getTags().values() on: the tag is pushed once for every page of tag.pages whose
\* slug is pageSlug
RECURSIVE buildTagsByPageMap(_, _, _)
buildTagsByPageMap(tags, pageSlug, t) ==
  IF t > Len(tags) THEN <<>>
  ELSE LET pushes == SelectSeq(tags[t].pages, LAMBDA page : page.slug = pageSlug)
       IN [i \in 1..Len(pushes) |-> tags[t]] \o buildTagsByPageMap(tags, pageSlug, t + 1)

\* getTagsData() has built its data over an initialized processor; a reader looks pageSlug
\* up in tagsByPage (utils.ts getTagsForPage: tagsByPage.get(pageSlug) ?? []) and asks the
\* processor's getTagsForPage(pageSlug)
tagsByPage_get(pageSlug) ==
  /\ unit = "tags"
  /\ Settled
  /\ init.at = "done"
  /\ answer' = [fn |-> "tagsByPage", pageSlug |-> pageSlug,
                indexed |-> buildTagsByPageMap(getTagsValues, pageSlug, 1),
                scanned |-> SelectSeq(getTagsValues,
                              LAMBDA tag : \E i \in 1..Len(tag.pages) :
                                             tag.pages[i].slug = pageSlug)]
  /\ UNCHANGED <<storeVars, chainVars, configFile, tagsData, docsEntries, onInlineTagsNotFound,
                 processedTags, init>>

PageIndexNext ==
  \/ InitializeNext
  \/ \E pageSlug \in PageSlugs : tagsByPage_get(pageSlug)
  \/ Resume

SpecPageIndex == CorpusInit /\ [][PageIndexNext]_vars

\* C28 (as claimed): for every page slug, the list tagsByPage holds for it (the empty list
\* when it has none) contains exactly the tags getTagsForPage returns for it, each tag once,
\* pages whose tags list repeats a tag ID included.
C28_IndexAgreesWithScan ==
  (unit = "tags" /\ answer.fn = "tagsByPage") =>
    /\ Range(answer.indexed) = Range(answer.scanned)
    /\ \A i, j \in 1..Len(answer.indexed) : i # j => answer.indexed[i].id # answer.indexed[j].id

\* ---- C29: the locale partitions of the data cache ----

\* the locales whose dataCache, initPromises or processorCache entry a step changes
TouchedLocales ==
  {l \in Locales : \/ dataCache'[l] # dataCache[l]
                   \/ initPromises'[l] # initPromises[l]
                   \/ processorCache'[l] # processorCache[l]}

\* the locales of the passes that a step starts, advances, completes or fails
SteppedLocales == {pass'[p].loc : p \in {q \in Passes : pass'[q] # pass[q]}}

\* C29: in the data module, a step other than resetDataCache changes the dataCache,
\* initPromises and processorCache entries of no locale but that of the pass it starts,
\* advances, completes or fails, and the step in which a pass for a locale fails leaves
\* that locale without an entry in each of the three maps.
C29_LocalePartitions ==
  [][(unit = "data" /\ resets' = resets)
       => /\ TouchedLocales \subseteq SteppedLocales
          /\ \A p \in Passes :
               (pass[p].pc # "failed" /\ pass'[p].pc = "failed")
                 => /\ dataCache'[pass[p].loc] = NULL
                    /\ initPromises'[pass[p].loc] = NULL
                    /\ processorCache'[pass[p].loc] = NULL]_vars

====
